---- MODULE Spec2Model ----
(***************************************************************************)
(* BudgetBee: the backend dispatcher of app.py (ask_llm and its two        *)
(* backends), the pure budget functions of finance_logic.py (summary,      *)
(* rules, goal plan), app.py's persona profiles, budget rules and chat     *)
(* prompt, and the chat state of one browser session.                      *)
(*                                                                         *)
(* Text is modelled as a sequence of tokens (each token a string), so that *)
(* concatenation, strip() and startswith() are computed, not assumed.      *)
(* Non-ASCII characters of the source literals are written in ASCII: the   *)
(* bullet character is the token BULLET, dashes are "-".                   *)
(***************************************************************************)
EXTENDS Integers, Sequences, FiniteSets, TLC

VARIABLES
    \* ---- configuration, read once at import (app.py 33-40)
    OPENROUTER_API_KEY, USE_HF_GRANITE, HF_API_TOKEN, HF_TEXT_MODEL,
    \* ---- one dispatch (ask_llm) in progress
    pc,          \* position of the caller inside ask_llm
    user_q,      \* the prompt handed to ask_llm
    ans,         \* ask_llm's local `ans` (return value of _ask_llm_openrouter)
    fallback,    \* return value of _ask_llm_granite_hf
    attempt,     \* loop variable of _ask_llm_granite_hf
    call_site,   \* line of ask_llm that called _ask_llm_granite_hf (135 or 140)
    result,      \* what ask_llm returned
    escaped,     \* the exception that left ask_llm, if any
    trace,       \* history of this dispatch: calls, requests, responses, returns
    \* ---- one evaluation of finance_logic.compute_summary
    fpc, income, expenses, savings_goal, summary,
    \* ---- one evaluation of the advisory rules on that budget
    persona,     \* the persona label handed to rules / persona_config
    tips,        \* what finance_logic.rules returned
    app_tips,    \* what app.py's budget_rules returned
    \* ---- one evaluation of finance_logic.goal_plan
    gpc, target_amount, days_left, current_savings, monthly_surplus, plan,
    planner,     \* who computes the plan: "goal_plan" or the "Goals page"
    \* ---- one browser session of the Streamlit script (app.py 308-369)
    CFG,           \* persona_config(persona) of the latest run
    page,          \* the sidebar radio
    chat_history,  \* st.session_state.chat_history
    chat_persona,  \* st.session_state.chat_persona
    cpc,           \* position of the script run on the Chat page
    prompt,        \* the Chat page's local `prompt`
    \* ---- the flat-file account and session store of budget_engine/auth.py
    users_file,    \* the rows of assets/users.csv under its header
    sessions_file, \* the rows of assets/sessions.csv under its header
    now,           \* time.time()
    uuid_count,    \* how many tokens uuid.uuid4() has handed out
    issued,        \* history: the tokens create_session returned, with email and time
    revoked,       \* history: the issued tokens revoke_session was called with
    apc,           \* per caller: where its operation stands
    alocal,        \* per caller: the dict it loaded (`users` or `sessions`)
    acall,         \* per caller: its latest call
    aret           \* per caller: what that call returned

dispatchVars == <<pc, user_q, ans, fallback, attempt, call_site, result, escaped, trace>>
configVars == <<OPENROUTER_API_KEY, USE_HF_GRANITE, HF_API_TOKEN, HF_TEXT_MODEL>>
financeVars == <<fpc, income, expenses, savings_goal, summary>>
ruleVars == <<persona, tips, app_tips>>
goalVars == <<gpc, target_amount, days_left, current_savings, monthly_surplus, plan, planner>>
sessionVars == <<CFG, page, chat_history, chat_persona, cpc, prompt>>
authVars == <<users_file, sessions_file, now, uuid_count, issued, revoked, apc, alocal, acall, aret>>
vars == <<configVars, dispatchVars, financeVars, ruleVars, goalVars, sessionVars, authVars>>

(***************************************************************************)
(* Bounds                                                                  *)
(***************************************************************************)
\* most whitespace tokens a provider puts before, and after, an answer text
MaxPad == 1
\* incomes range over -MaxIncome..MaxIncome steps of the input grid
MaxIncome == 3
\* savings goals range over 0..MaxGoal steps of the input grid
MaxGoal == 2
\* category amounts range over 0..MaxAmount steps of the input grid
MaxAmount == 2
\* most categories in an expense mapping
MaxCats == 2

(***************************************************************************)
(* Text helpers (Python str operations on token sequences)                 *)
(***************************************************************************)
NoText == <<"<None>">>

IsWhitespace(t) == t \in {" ", "\n"}

RECURSIVE lstrip(_)
lstrip(s) == IF s # <<>> /\ IsWhitespace(Head(s)) THEN lstrip(Tail(s)) ELSE s

RECURSIVE rstrip(_)
rstrip(s) ==
    IF s # <<>> /\ IsWhitespace(s[Len(s)]) THEN rstrip(SubSeq(s, 1, Len(s) - 1)) ELSE s

\* str.strip()
strip(s) == lstrip(rstrip(s))

\* str.startswith(prefix)
startswith(s, prefix) ==
    Len(s) >= Len(prefix) /\ SubSeq(s, 1, Len(prefix)) = prefix

\* `needle in s` for strings
Contains(s, needle) ==
    \E i \in 0..(Len(s) - Len(needle)) : SubSeq(s, i + 1, i + Len(needle)) = needle

(***************************************************************************)
(* Literals of app.py                                                      *)
(***************************************************************************)
BULLET == "(bullet)"

OPENROUTER_ERROR_PREFIX == <<"(AI error via OpenRouter)">>
GRANITE_NOT_CONFIGURED == <<"(Granite fallback not enabled or not configured)">>
GRANITE_NOT_FOUND_PREFIX == <<"(Granite) HF model not found: '">>
GRANITE_ACCESS_DENIED ==
    <<"(Granite) Access denied. On Hugging Face, open the model page with the SAME account ",
      "as your token, click 'Agree and access', then retry.">>
HF_HTTP_ERROR_PREFIX == <<"(AI error via Hugging Face)">>
HF_NETWORK_ERROR_PREFIX == <<"(Network error via Hugging Face)">>
HF_TRANSIENT_ERROR == <<"(Transient error via Hugging Face) Please try again.">>
FALLBACK_NARRATION == <<"(OpenRouter error, used Granite fallback)", "\n", "\n">>

\* ask_llm's final fallback: one header line and two lines of bullet items
STATIC_TIPS ==
    <<"AI is not configured (no OpenRouter or Granite). Quick tips:", "\n",
      BULLET, " Track expenses weekly ",
      BULLET, " Keep 3-6 months emergency fund ",
      BULLET, " Use SIPs for long-term goals", "\n",
      BULLET, " Compare old vs new tax regimes annually ",
      BULLET, " Avoid high-interest debt", "\n">>

\* number of bullet items in a text
BulletCount(s) == Cardinality({i \in 1..Len(s) : s[i] = BULLET})

(***************************************************************************)
(* Providers: what an HTTP request (requests.post) can come back with      *)
(***************************************************************************)
HttpStatuses == {200, 401, 403, 404, 429, 500, 503}

StatusText(c) ==
    CASE c = 200 -> "200 OK"
      [] c = 401 -> "401 Client Error: Unauthorized"
      [] c = 403 -> "403 Client Error: Forbidden"
      [] c = 404 -> "404 Client Error: Not Found"
      [] c = 429 -> "429 Client Error: Too Many Requests"
      [] c = 500 -> "500 Server Error: Internal Server Error"
      [] c = 503 -> "503 Server Error: Service Unavailable"

\* n whitespace tokens
Pad(n) == [i \in 1..n |-> IF i % 2 = 1 THEN " " ELSE "\n"]

\* answer texts without surrounding whitespace; the second one is an answer
\* that itself begins with the words of the OpenRouter error prefix
TextCores ==
    {<<"Track your spending and start a SIP.">>,
     <<"(AI error via OpenRouter)", " ", "means the primary model was unreachable.">>}

\* the texts a provider may put in a well-formed body
Texts == {Pad(i) \o c \o Pad(j) : i \in 0..MaxPad, j \in 0..MaxPad, c \in TextCores}

\* the prompts a caller may pass to ask_llm
Prompts == {<<"How do I save on food and commute?">>, <<"Monthly snapshot", "\n", "Income: 60000">>}

NoExc == [type |-> "none", msg |-> <<>>]
NoBody == [shape |-> "none", text |-> <<>>]
ErrorBody == [shape |-> "dict_other", text |-> <<"error">>]

\* response bodies of the chat-completions endpoint
OpenRouterBodies ==
    {[shape |-> "chat", text |-> t] : t \in Texts}
    \cup {[shape |-> s, text |-> <<"error">>] : s \in {"not_json", "dict_other", "content_null"}}

\* response bodies of the HF inference endpoint
GraniteBodies ==
    {[shape |-> s, text |-> t] : s \in {"list_gen", "dict_gen", "dict_choices"}, t \in Texts}
    \cup {[shape |-> s, text |-> <<"error">>] :
            s \in {"not_json", "dict_other", "list_bad", "choices_empty", "empty_list"}}

NetworkErrors ==
    {[type |-> "Timeout", msg |-> <<"Read timed out.">>],
     [type |-> "ConnectionError", msg |-> <<"Connection refused">>]}

\* every behaviour of a provider for one request
Responses(bodies) ==
    {[kind |-> "http", status |-> 200, body |-> b, exc |-> NoExc] : b \in bodies}
    \cup {[kind |-> "http", status |-> c, body |-> ErrorBody, exc |-> NoExc] :
            c \in HttpStatuses \ {200}}
    \cup {[kind |-> "neterr", status |-> 0, body |-> NoBody, exc |-> e] : e \in NetworkErrors}

NoResp == [kind |-> "none", status |-> 0, body |-> NoBody, exc |-> NoExc]

(***************************************************************************)
(* Outcomes of a block of Python code: a returned text, a raised           *)
(* exception, or (inside the retry loop) `continue`.                       *)
(***************************************************************************)
Return(t) == [kind |-> "return", text |-> t, exc |-> NoExc]
Raise(e) == [kind |-> "raise", text |-> <<>>, exc |-> e]
Continue == [kind |-> "continue", text |-> <<>>, exc |-> NoExc]

\* str(e)
ExcStr(e) == e.msg

\* Response.raise_for_status(): HTTPError for 4xx and 5xx
raise_for_status(r) ==
    IF r.status >= 400 /\ r.status < 600
    THEN Raise([type |-> "HTTPError", msg |-> <<StatusText(r.status)>>])
    ELSE Return(<<>>)


(***************************************************************************)
(* _ask_llm_openrouter (app.py 59-81)                                      *)
(***************************************************************************)
\* the try block, lines 63-79: post, raise_for_status, then
\* r.json()["choices"][0]["message"]["content"].strip()
openrouter_try(r) ==
    IF r.kind = "neterr" THEN Raise(r.exc)
    ELSE IF raise_for_status(r).kind = "raise" THEN raise_for_status(r)
    ELSE CASE r.body.shape = "chat" -> Return(strip(r.body.text))
           [] r.body.shape = "not_json" ->
                Raise([type |-> "JSONDecodeError", msg |-> <<"Expecting value: line 1 column 1 (char 0)">>])
           [] r.body.shape = "dict_other" ->
                Raise([type |-> "KeyError", msg |-> <<"'choices'">>])
           [] r.body.shape = "content_null" ->
                Raise([type |-> "AttributeError", msg |-> <<"'NoneType' object has no attribute 'strip'">>])

\* a variant of lines 80-81 that catches requests' HTTPError only
openrouter_except_http_only(o) ==
    IF o.kind = "raise" /\ o.exc.type = "HTTPError"
    THEN Return(OPENROUTER_ERROR_PREFIX \o <<" ">> \o ExcStr(o.exc))
    ELSE o

\* `except Exception as e: return f"(AI error via OpenRouter) {e}"`, lines 80-81
openrouter_except(o) ==
    IF o.kind = "raise"
    THEN Return(OPENROUTER_ERROR_PREFIX \o <<" ">> \o ExcStr(o.exc))
    ELSE o

\* what _ask_llm_openrouter makes of the provider's behaviour
ask_llm_openrouter(r) == openrouter_except(openrouter_try(r))

(***************************************************************************)
(* _ask_llm_granite_hf (app.py 83-127)                                     *)
(***************************************************************************)
\* lines 85-86: the guard at the top of _ask_llm_granite_hf
GraniteConfigured == HF_API_TOKEN # "" /\ HF_TEXT_MODEL # "" /\ USE_HF_GRANITE

\* the 404 message, lines 103-105
GraniteNotFound ==
    GRANITE_NOT_FOUND_PREFIX \o <<HF_TEXT_MODEL>>
    \o <<"'. Set HF_TEXT_MODEL to a valid repo id, e.g. ",
         "'ibm-granite/granite-3.1-8b-instruct' or 'ibm-granite/granite-3.3-8b-instruct'.">>

\* str(out), line 122
PyStr(body) ==
    IF body.shape = "empty_list" THEN <<"[]">>
    ELSE <<"{'">> \o body.text \o <<"': 'Model is loading'}">>

\* lines 115-122: decode the JSON body by probing its shape
granite_parse(body) ==
    CASE body.shape \in {"list_gen", "dict_gen", "dict_choices"} -> Return(strip(body.text))
      [] body.shape \in {"dict_other", "empty_list"} -> Return(PyStr(body))
      [] body.shape = "not_json" ->
            Raise([type |-> "JSONDecodeError", msg |-> <<"Expecting value: line 1 column 1 (char 0)">>])
      [] body.shape = "list_bad" ->
            Raise([type |-> "TypeError", msg |-> <<"argument of type 'int' is not iterable">>])
      [] body.shape = "choices_empty" ->
            Raise([type |-> "IndexError", msg |-> <<"list index out of range">>])

\* line 111: the condition under which the loop sleeps and retries
granite_should_retry(status, att) == status \in {429, 503} /\ att = 0

\* the try block of one loop iteration, lines 100-122
granite_try(r, att) ==
    IF r.kind = "neterr" THEN Raise(r.exc)
    ELSE IF r.status = 404 THEN Return(GraniteNotFound)
    ELSE IF r.status = 403 THEN Return(GRANITE_ACCESS_DENIED)
    ELSE IF granite_should_retry(r.status, att) THEN Continue
    ELSE IF raise_for_status(r).kind = "raise" THEN raise_for_status(r)
    ELSE granite_parse(r.body)

\* a variant of lines 123-126 with the general clause first, which then
\* shadows the HTTPError clause
granite_except_generic(o) ==
    IF o.kind # "raise" THEN o
    ELSE Return(HF_NETWORK_ERROR_PREFIX \o <<" ">> \o ExcStr(o.exc))

\* the two except clauses, lines 123-126
granite_except(o) ==
    IF o.kind # "raise" THEN o
    ELSE IF o.exc.type = "HTTPError"
    THEN Return(HF_HTTP_ERROR_PREFIX \o <<" ">> \o ExcStr(o.exc))
    ELSE Return(HF_NETWORK_ERROR_PREFIX \o <<" ">> \o ExcStr(o.exc))

\* one iteration of `for attempt in range(2)`
granite_attempt(r, att) == granite_except(granite_try(r, att))

\* range(2)
GRANITE_ATTEMPTS == 2

(***************************************************************************)
(* ask_llm (app.py 129-146)                                                *)
(***************************************************************************)
\* a variant of line 139 that forgets to test HF_TEXT_MODEL
granite_enabled_no_model == USE_HF_GRANITE /\ HF_API_TOKEN # ""

\* line 139: Granite is usable on its own
granite_enabled == USE_HF_GRANITE /\ HF_API_TOKEN # "" /\ HF_TEXT_MODEL # ""

\* a variant of line 134 that does not test whether Granite is configured
should_use_fallback_unchecked(a) == startswith(a, OPENROUTER_ERROR_PREFIX)

\* line 134: the test that sends a primary answer to the fallback
should_use_fallback(a) ==
    startswith(a, OPENROUTER_ERROR_PREFIX)
    /\ USE_HF_GRANITE /\ HF_API_TOKEN # "" /\ HF_TEXT_MODEL # ""

\* a variant of line 136 that quotes the primary's answer in front of the fallback's
fallback_answer_leaky(a, fb) == a \o <<"\n", "\n">> \o fb

\* line 136
fallback_answer(a, fb) == FALLBACK_NARRATION \o fb

\* a variant of line 140 that narrates a fallback chain that did not happen
granite_return_always_narrates(site, a, fb) == fallback_answer(a, fb)

\* what ask_llm returns once _ask_llm_granite_hf has returned fb to line `site`
granite_return(site, a, fb) == IF site = 135 THEN fallback_answer(a, fb) ELSE fb

Event(ev, who, r) == [ev |-> ev, who |-> who, resp |-> r]


(***************************************************************************)
(* The dispatcher as a state machine.  An HTTP request is in flight between *)
(* the step that sends it and the step in which requests.post comes back    *)
(* (with a response, or with a transport exception such as the 60 s         *)
(* timeout).                                                                *)
(***************************************************************************)
ConfigInit ==
    /\ OPENROUTER_API_KEY \in {"", "sk-or-v1-key"}
    /\ USE_HF_GRANITE \in BOOLEAN
    /\ HF_API_TOKEN \in {"", "hf_token"}
    /\ HF_TEXT_MODEL \in {"", "ibm-granite/granite-3.1-8b-instruct"}

DispatchIdle ==
    /\ pc = "idle"
    /\ user_q = NoText
    /\ ans = NoText
    /\ fallback = NoText
    /\ attempt = 0
    /\ call_site = 0
    /\ result = NoText
    /\ escaped = NoExc
    /\ trace = <<>>

\* the summary record before compute_summary has run
NoSummary ==
    [ income |-> 0, total_expenses |-> 0, savings_goal |-> 0, savings_rate |-> 0,
      expense_shares |-> <<>>, top_categories |-> <<>>, surplus |-> 0,
      surplus_positive |-> FALSE, emergency_fund_months |-> 0 ]

FinanceIdle ==
    /\ fpc = "off"
    /\ income = 0
    /\ expenses = <<>>
    /\ savings_goal = 0
    /\ summary = NoSummary

\* no advisory evaluation in progress
RulesIdle ==
    /\ persona = NoText
    /\ tips = NoText
    /\ app_tips = NoText

\* the plan record before goal_plan has run
NoPlan == [months_left |-> 0, needed_monthly |-> 0, feasible |-> FALSE]

GoalIdle ==
    /\ gpc = "off"
    /\ target_amount = 0
    /\ days_left = 0
    /\ current_savings = 0
    /\ monthly_surplus = 0
    /\ plan = NoPlan
    /\ planner = ""

\* the persona profile before persona_config has run
NoCfg == [name |-> "", caps |-> <<>>, chat_presets |-> <<>>]

\* no browser session
SessionIdle ==
    /\ CFG = NoCfg
    /\ page = ""
    /\ chat_history = <<>>
    /\ chat_persona = ""
    /\ cpc = "off"
    /\ prompt = NoText

\* the callers of the account store
Procs == {1, 2}
NoCall ==
    [op |-> "", name |-> NoText, email |-> NoText, password |-> NoText,
     persona |-> NoText, token |-> ""]
NoRet == [kind |-> "none"]

\* nobody uses the account store: both files hold their header only
AuthIdle ==
    /\ users_file = <<>>
    /\ sessions_file = <<>>
    /\ now = 0
    /\ uuid_count = 0
    /\ issued = {}
    /\ revoked = {}
    /\ apc = [p \in Procs |-> "off"]
    /\ alocal = [p \in Procs |-> <<>>]
    /\ acall = [p \in Procs |-> NoCall]
    /\ aret = [p \in Procs |-> NoRet]

Init == ConfigInit /\ DispatchIdle /\ AuthIdle /\ FinanceIdle /\ RulesIdle /\ GoalIdle /\ SessionIdle

\* entering _ask_llm_granite_hf from line `site` of ask_llm: lines 85-100
EnterGranite(site, tr) ==
    /\ call_site' = site
    /\ attempt' = 0
    /\ IF ~GraniteConfigured
       THEN /\ fallback' = GRANITE_NOT_CONFIGURED
            /\ trace' = tr \o <<Event("call", "granite", NoResp), Event("return", "granite", NoResp)>>
            /\ pc' = "hf_returned"
       ELSE /\ fallback' = fallback
            /\ trace' = tr \o <<Event("call", "granite", NoResp), Event("send", "granite", NoResp)>>
            /\ pc' = "hf_wait"

\* a variant of ask_llm that hedges: with both backends configured it sends
\* the fallback's request together with the primary's
AskLlm_hedged(q) ==
    /\ pc = "idle"
    /\ user_q' = q
    /\ IF OPENROUTER_API_KEY # ""
       THEN /\ trace' =
                <<Event("call", "openrouter", NoResp), Event("send", "openrouter", NoResp)>>
                \o (IF granite_enabled
                    THEN <<Event("call", "granite", NoResp), Event("send", "granite", NoResp)>>
                    ELSE <<>>)
            /\ pc' = "or_wait"
            /\ UNCHANGED <<ans, fallback, attempt, call_site, result, escaped>>
       ELSE IF granite_enabled
       THEN /\ EnterGranite(140, <<>>)
            /\ UNCHANGED <<ans, result, escaped>>
       ELSE /\ result' = STATIC_TIPS
            /\ pc' = "done"
            /\ UNCHANGED <<ans, fallback, attempt, call_site, escaped, trace>>
    /\ UNCHANGED <<configVars, authVars, financeVars, ruleVars, goalVars, sessionVars>>

\* ask_llm(user_q) is called: lines 131-132, 139-146, and the callee up to its
\* first requests.post
AskLlm(q) ==
    /\ pc = "idle"
    /\ user_q' = q
    /\ IF OPENROUTER_API_KEY # ""
       THEN \* line 132: _ask_llm_openrouter(user_q), lines 62-77 (the guard of
            \* line 60 tests the same key and cannot hold here)
            /\ trace' = <<Event("call", "openrouter", NoResp), Event("send", "openrouter", NoResp)>>
            /\ pc' = "or_wait"
            /\ UNCHANGED <<ans, fallback, attempt, call_site, result, escaped>>
       ELSE IF granite_enabled
       THEN \* line 140
            /\ EnterGranite(140, <<>>)
            /\ UNCHANGED <<ans, result, escaped>>
       ELSE \* lines 142-146
            /\ result' = STATIC_TIPS
            /\ pc' = "done"
            /\ UNCHANGED <<ans, fallback, attempt, call_site, escaped, trace>>
    /\ UNCHANGED <<configVars, authVars, financeVars, ruleVars, goalVars, sessionVars>>

\* requests.post of _ask_llm_openrouter comes back; the function returns (79, 81)
OpenRouterResponds(r) ==
    /\ pc = "or_wait"
    /\ LET o == ask_llm_openrouter(r) IN
        IF o.kind = "raise"
        THEN /\ escaped' = o.exc
             /\ pc' = "raised"
             /\ trace' = trace \o <<Event("recv", "openrouter", r)>>
             /\ ans' = ans
        ELSE /\ ans' = o.text
             /\ pc' = "or_returned"
             /\ trace' = trace \o <<Event("recv", "openrouter", r), Event("return", "openrouter", NoResp)>>
             /\ escaped' = escaped
    /\ UNCHANGED <<user_q, fallback, attempt, call_site, result, configVars, authVars, financeVars, ruleVars, goalVars, sessionVars>>

\* ask_llm lines 134-137, with `ans` in hand
AfterPrimary ==
    /\ pc = "or_returned"
    /\ IF should_use_fallback(ans)
       THEN /\ EnterGranite(135, trace)
            /\ result' = result
       ELSE /\ result' = ans
            /\ pc' = "done"
            /\ UNCHANGED <<fallback, attempt, call_site, trace>>
    /\ UNCHANGED <<user_q, ans, escaped, configVars, authVars, financeVars, ruleVars, goalVars, sessionVars>>

\* requests.post of _ask_llm_granite_hf comes back: one loop iteration, 100-126
GraniteResponds(r) ==
    /\ pc = "hf_wait"
    /\ LET o == granite_attempt(r, attempt) IN
        CASE o.kind = "continue" ->
                /\ pc' = "hf_sleep"
                /\ trace' = trace \o <<Event("recv", "granite", r)>>
                /\ UNCHANGED <<fallback, escaped>>
          [] o.kind = "return" ->
                /\ fallback' = o.text
                /\ pc' = "hf_returned"
                /\ trace' = trace \o <<Event("recv", "granite", r), Event("return", "granite", NoResp)>>
                /\ escaped' = escaped
          [] o.kind = "raise" ->
                /\ escaped' = o.exc
                /\ pc' = "raised"
                /\ trace' = trace \o <<Event("recv", "granite", r)>>
                /\ fallback' = fallback
    /\ UNCHANGED <<user_q, ans, attempt, call_site, result, configVars, authVars, financeVars, ruleVars, goalVars, sessionVars>>

\* time.sleep(2.0); continue (line 112): the next iteration of the loop, or
\* line 127 when range(2) is exhausted
GraniteRetry ==
    /\ pc = "hf_sleep"
    /\ attempt' = attempt + 1
    /\ IF attempt + 1 < GRANITE_ATTEMPTS
       THEN /\ pc' = "hf_wait"
            /\ trace' = trace \o <<Event("send", "granite", NoResp)>>
            /\ fallback' = fallback
       ELSE /\ fallback' = HF_TRANSIENT_ERROR
            /\ pc' = "hf_returned"
            /\ trace' = trace \o <<Event("return", "granite", NoResp)>>
    /\ UNCHANGED <<user_q, ans, call_site, result, escaped, configVars, authVars, financeVars, ruleVars, goalVars, sessionVars>>

\* _ask_llm_granite_hf has returned into ask_llm: line 136 or line 140
AfterFallback ==
    /\ pc = "hf_returned"
    /\ result' = granite_return(call_site, ans, fallback)
    /\ pc' = "done"
    /\ UNCHANGED <<user_q, ans, fallback, attempt, call_site, escaped, trace, configVars, authVars, financeVars, ruleVars, goalVars, sessionVars>>

\* the caller (a Streamlit rerun) is ready for its next ask_llm
NextCall ==
    /\ pc \in {"done", "raised"}
    /\ pc' = "idle"
    /\ user_q' = NoText
    /\ ans' = NoText
    /\ fallback' = NoText
    /\ attempt' = 0
    /\ call_site' = 0
    /\ result' = NoText
    /\ escaped' = NoExc
    /\ trace' = <<>>
    /\ UNCHANGED <<configVars, authVars, financeVars, ruleVars, goalVars, sessionVars>>

Next ==
    \/ \E q \in Prompts : AskLlm(q)
    \/ \E r \in Responses(OpenRouterBodies) : OpenRouterResponds(r)
    \/ AfterPrimary
    \/ \E r \in Responses(GraniteBodies) : GraniteResponds(r)
    \/ GraniteRetry
    \/ AfterFallback
    \/ NextCall

Spec == Init /\ [][Next]_vars


(***************************************************************************)
(* Reading the history of a dispatch                                       *)
(***************************************************************************)
Count(ev, who) == Len(SelectSeq(trace, LAMBDA e : e.ev = ev /\ e.who = who))

\* the responses `who` has received in this dispatch, in order
Received(who) ==
    LET evs == SelectSeq(trace, LAMBDA e : e.ev = "recv" /\ e.who = who)
    IN [i \in 1..Len(evs) |-> evs[i].resp]

\* requests of `who` sent and not yet answered
InFlight(who) == Count("send", who) - Count("recv", who)

PrimaryConfigured == OPENROUTER_API_KEY # ""
FallbackConfigured == USE_HF_GRANITE /\ HF_API_TOKEN # "" /\ HF_TEXT_MODEL # ""

\* a well-formed 2xx chat completion
IsChatCompletion(r) == r.kind = "http" /\ r.status < 400 /\ r.body.shape = "chat"
\* a well-formed 2xx text generation
IsGeneration(r) ==
    r.kind = "http" /\ r.status < 400 /\ r.body.shape \in {"list_gen", "dict_gen", "dict_choices"}

PrimaryAnswered == Len(Received("openrouter")) = 1
PrimarySucceeded == PrimaryAnswered /\ IsChatCompletion(Received("openrouter")[1])
PrimaryFailed == PrimaryAnswered /\ ~IsChatCompletion(Received("openrouter")[1])

GraniteReturned == Count("return", "granite") = 1
LastGranite == Received("granite")[Len(Received("granite"))]
FallbackSucceeded ==
    GraniteReturned /\ Len(Received("granite")) >= 1 /\ IsGeneration(LastGranite)

(***************************************************************************)
(* C1: primary configured and failing, fallback configured and succeeding: *)
(* ask_llm returns the fallback narration followed by the fallback's       *)
(* (stripped) text, and the primary's error text is nowhere in the result. *)
(***************************************************************************)
C1_DegradedCarriesFallback ==
    (pc = "done" /\ PrimaryConfigured /\ PrimaryFailed /\ FallbackConfigured /\ FallbackSucceeded)
    => /\ result = FALLBACK_NARRATION \o strip(LastGranite.body.text)
       /\ ~Contains(result, ans)
       /\ ~startswith(result, OPENROUTER_ERROR_PREFIX)

C1_Witness ==
    /\ pc = "done" /\ PrimaryConfigured /\ PrimaryFailed /\ FallbackConfigured /\ FallbackSucceeded
    /\ Received("openrouter")[1].status = 500
    /\ startswith(result, FALLBACK_NARRATION)

(***************************************************************************)
(* C2 (as amended): with neither backend configured ask_llm invokes no     *)
(* backend and returns exactly the fixed literal tip text, whatever the    *)
(* prompt; that text holds five bullet items.                              *)
(***************************************************************************)
C2_StaticTipsFiveBullets ==
    (pc = "done" /\ ~PrimaryConfigured /\ ~FallbackConfigured)
    => /\ result = STATIC_TIPS
       /\ trace = <<>>
       /\ BulletCount(result) = 5

\* C2 as stated: the literal is a four-bullet text
C2_StaticTipsFourBullets ==
    (pc = "done" /\ ~PrimaryConfigured /\ ~FallbackConfigured)
    => /\ result = STATIC_TIPS
       /\ trace = <<>>
       /\ BulletCount(result) = 4

C2_Witness ==
    /\ pc = "done" /\ ~PrimaryConfigured /\ USE_HF_GRANITE /\ HF_API_TOKEN # "" /\ HF_TEXT_MODEL = ""
    /\ user_q \in Prompts
    /\ result = STATIC_TIPS

(***************************************************************************)
(* C3: no exception leaves ask_llm or either backend function, whatever    *)
(* the configuration and the providers' behaviour; a finished dispatch has *)
(* returned a text; and every step of a dispatch moves it strictly closer  *)
(* to its return, so it terminates.                                        *)
(***************************************************************************)
Rank ==
    CASE pc = "idle" -> 0
      [] pc = "or_wait" -> 1
      [] pc = "or_returned" -> 2
      [] pc = "hf_wait" -> 3 + 2 * attempt
      [] pc = "hf_sleep" -> 4 + 2 * attempt
      [] pc = "hf_returned" -> 3 + 2 * GRANITE_ATTEMPTS
      [] pc \in {"done", "raised"} -> 4 + 2 * GRANITE_ATTEMPTS

C3_NeverRaisesAndTerminates ==
    /\ [](pc # "raised" /\ escaped = NoExc)
    /\ [](pc = "done" => (result # NoText /\ result \in Seq(STRING)))
    /\ [][pc' # "idle" => Rank' > Rank]_vars

C3_Witness ==
    /\ pc = "done"
    /\ Len(Received("openrouter")) = 1 /\ Received("openrouter")[1].body.shape = "content_null"
    /\ Len(Received("granite")) = 2 /\ LastGranite.body.shape = "list_bad"


(***************************************************************************)
(* Outcome classes of _ask_llm_granite_hf, told apart by the returned text *)
(***************************************************************************)
IsTransientStatus(r) == r.kind = "http" /\ r.status \in {429, 503}
IsNotFoundMessage(t) == startswith(t, GRANITE_NOT_FOUND_PREFIX)
IsAccessDeniedMessage(t) == t = GRANITE_ACCESS_DENIED
IsHttpErrorMessage(t) == startswith(t, HF_HTTP_ERROR_PREFIX)
IsNetworkErrorMessage(t) == startswith(t, HF_NETWORK_ERROR_PREFIX)
IsTransientMessage(t) == t = HF_TRANSIENT_ERROR

\* the number of the four error classes a text falls in
ErrorClasses(t) ==
    Cardinality({c \in {"notfound", "denied", "http", "network"} :
        \/ c = "notfound" /\ IsNotFoundMessage(t)
        \/ c = "denied" /\ IsAccessDeniedMessage(t)
        \/ c = "http" /\ IsHttpErrorMessage(t)
        \/ c = "network" /\ IsNetworkErrorMessage(t)})

(***************************************************************************)
(* C4 (as stated): after 429/503 on the first attempt and 429/503 again on *)
(* the retry, the fallback has sent two requests and returns the labelled  *)
(* transient-error message, not the generic HTTP-error message.            *)
(***************************************************************************)
C4_TransientAfterRetry ==
    (GraniteReturned /\ Len(Received("granite")) = 2
        /\ IsTransientStatus(Received("granite")[1]) /\ IsTransientStatus(Received("granite")[2]))
    => /\ Count("send", "granite") = 2
       /\ IsTransientMessage(fallback)
       /\ ~IsHttpErrorMessage(fallback)

(***************************************************************************)
(* C5: the fallback sends a second request only after a 429/503 on the     *)
(* first, never more than two; a 404, a 403, any other error status (one   *)
(* that is not retried) and a transport failure each end the invocation on *)
(* the attempt they occur in, with the model-not-found, access-denied,     *)
(* HTTP-error and network-error message respectively, and each of these    *)
(* returned texts falls in exactly one of the four classes.                *)
(***************************************************************************)
\* an error status that is neither 403 nor 404 nor retried on attempt `att`
IsOtherErrorStatus(r, att) ==
    /\ r.kind = "http" /\ r.status >= 400 /\ r.status \notin {403, 404}
    /\ ~(r.status \in {429, 503} /\ att = 0)

\* response number n of the fallback ended the invocation
EndsInvocation(n) == GraniteReturned /\ Len(Received("granite")) = n

C5_RetryOnlyTransientDistinctErrors ==
    LET rs == Received("granite") IN
    /\ Count("send", "granite") <= 2
    /\ Count("send", "granite") = 2 => (Len(rs) >= 1 /\ IsTransientStatus(rs[1]))
    /\ \A n \in 1..Len(rs) :
        /\ (rs[n].kind = "http" /\ rs[n].status = 404)
            => (EndsInvocation(n) /\ IsNotFoundMessage(fallback) /\ ErrorClasses(fallback) = 1)
        /\ (rs[n].kind = "http" /\ rs[n].status = 403)
            => (EndsInvocation(n) /\ IsAccessDeniedMessage(fallback) /\ ErrorClasses(fallback) = 1)
        /\ IsOtherErrorStatus(rs[n], n - 1)
            => (EndsInvocation(n) /\ IsHttpErrorMessage(fallback) /\ ErrorClasses(fallback) = 1)
        /\ rs[n].kind = "neterr"
            => (EndsInvocation(n) /\ IsNetworkErrorMessage(fallback) /\ ErrorClasses(fallback) = 1)

C5_Witness ==
    /\ GraniteReturned
    /\ Len(Received("granite")) = 2
    /\ Received("granite")[1].status = 503
    /\ Received("granite")[2].status = 500
    /\ IsHttpErrorMessage(fallback)

(***************************************************************************)
(* C6: in one dispatch each backend is invoked at most once, the fallback  *)
(* is invoked only after the primary has returned, and at no time are two  *)
(* requests in flight.                                                     *)
(***************************************************************************)
C6_SequentialBackends ==
    /\ Count("call", "openrouter") <= 1
    /\ Count("call", "granite") <= 1
    /\ InFlight("openrouter") + InFlight("granite") \in {0, 1}
    /\ \A i, j \in 1..Len(trace) :
        (trace[i].who = "openrouter" /\ trace[j].who = "granite") => i < j
    /\ (Count("call", "granite") = 1 /\ Count("call", "openrouter") = 1)
        => Count("return", "openrouter") = 1

C6_Witness ==
    /\ pc = "hf_wait"
    /\ Count("call", "openrouter") = 1 /\ Count("return", "openrouter") = 1
    /\ Count("call", "granite") = 1
    /\ InFlight("granite") = 1 /\ InFlight("openrouter") = 0

(***************************************************************************)
(* C7 (as stated): when the primary is configured and its call succeeds    *)
(* structurally, the fallback is never invoked in that dispatch and        *)
(* ask_llm returns the primary's text; with the primary configured the     *)
(* fallback is invoked only after a primary failure.                       *)
(***************************************************************************)
C7_SuccessNeverFallsBack ==
    /\ (PrimaryConfigured /\ PrimarySucceeded)
        => /\ Count("call", "granite") = 0
           /\ pc = "done" => result = strip(Received("openrouter")[1].body.text)
    /\ (PrimaryConfigured /\ Count("call", "granite") > 0) => PrimaryFailed

(***************************************************************************)
(* C8: primary configured and failing, fallback not configured: no further *)
(* request is sent and ask_llm returns the diagnostic prefix followed by   *)
(* the primary's error text; not the static tips, not a fallback answer.   *)
(***************************************************************************)
C8_PrimaryErrorVerbatim ==
    (pc = "done" /\ PrimaryConfigured /\ PrimaryFailed /\ ~FallbackConfigured)
    => /\ Count("send", "openrouter") = 1
       /\ Count("call", "granite") = 0 /\ Count("send", "granite") = 0
       /\ result = OPENROUTER_ERROR_PREFIX \o <<" ">>
                     \o ExcStr(openrouter_try(Received("openrouter")[1]).exc)
       /\ result # STATIC_TIPS
       /\ ~startswith(result, FALLBACK_NARRATION)

C8_Witness ==
    /\ pc = "done" /\ PrimaryConfigured /\ PrimaryFailed
    /\ USE_HF_GRANITE /\ HF_API_TOKEN = "" /\ HF_TEXT_MODEL # ""
    /\ Received("openrouter")[1].kind = "neterr"
    /\ startswith(result, OPENROUTER_ERROR_PREFIX)

(***************************************************************************)
(* C9: primary not configured, fallback configured: the primary is never   *)
(* invoked, the fallback is invoked exactly once, and ask_llm returns what  *)
(* the fallback returned (its answer or its error message) with no         *)
(* fallback narration in front.                                            *)
(***************************************************************************)
C9_FallbackAloneUnnarrated ==
    /\ (~PrimaryConfigured /\ FallbackConfigured)
        => /\ Count("call", "openrouter") = 0 /\ Count("send", "openrouter") = 0
           /\ pc \notin {"idle"} => Count("call", "granite") = 1
    /\ (pc = "done" /\ ~PrimaryConfigured /\ FallbackConfigured)
        => /\ GraniteReturned
           /\ result = fallback
           /\ result = granite_attempt(LastGranite, Len(Received("granite")) - 1).text
           /\ ~startswith(result, FALLBACK_NARRATION)

C9_Witness ==
    /\ pc = "done" /\ ~PrimaryConfigured /\ FallbackConfigured
    /\ IsGeneration(LastGranite)
    /\ result = strip(LastGranite.body.text)



(***************************************************************************)
(* finance_logic.py.  Money is counted in ticks of 1/200 rupee, so that    *)
(* both the inputs (multiples of 1/8 rupee, which binary floats hold       *)
(* exactly) and values rounded to 2 decimals are integers.  Percentages    *)
(* and months are counted in hundredths.  round() is Python's: to nearest, *)
(* ties to even, computed here on the exact quotient.                      *)
(***************************************************************************)
\* the amount 1 (one rupee) of `max(1, income - total_expenses)`, in ticks
TICKS == 200
\* the granularity 0.01 of round(x, 2), in ticks
CENT == 2
\* one step of the grid of expense amounts: three eighths of a rupee, in ticks
GRID == 3 * (TICKS \div 8)
\* one step of the grid of incomes and savings goals: half a rupee, in ticks.
\* Whole paise here keep round(income - total_expenses - savings_goal, 2) off
\* the ties that binary floating point would break by its representation error.
INCOME_GRID == TICKS \div 2

Incomes == {k * INCOME_GRID : k \in (0 - MaxIncome)..MaxIncome}
Goals == {k * INCOME_GRID : k \in 0..MaxGoal}
Amounts == {k * GRID : k \in 0..MaxAmount}
CategoryPool == {"Rent", "Dining", "Taxes"}

\* a dict category -> amount, as the sequence of its items in insertion order
ExpenseMaps ==
    UNION {
        {m \in [1..n -> [cat : CategoryPool, amount : Amounts]] :
            \A i, j \in 1..n : i # j => m[i].cat # m[j].cat}
        : n \in 0..(IF MaxCats < 3 THEN MaxCats ELSE 3)}

\* n / d rounded to the nearest integer, ties to even (d # 0)
RoundHalfEven(n, d) ==
    LET nn == IF d < 0 THEN 0 - n ELSE n
        dd == IF d < 0 THEN 0 - d ELSE d
        q == nn \div dd
        r == nn - q * dd
    IN  IF 2 * r < dd THEN q
        ELSE IF 2 * r > dd THEN q + 1
        ELSE IF q % 2 = 0 THEN q ELSE q + 1

\* round(x, 2) of an amount in ticks, in ticks
Round2(x) == CENT * RoundHalfEven(x, CENT)

RECURSIVE SumAmounts(_)
SumAmounts(m) == IF m = <<>> THEN 0 ELSE Head(m).amount + SumAmounts(Tail(m))

\* pct(part, whole), in hundredths of a percent
pct(part, whole) == IF whole = 0 THEN 0 ELSE RoundHalfEven(100 * 100 * part, whole)

\* a descending sort that is not stable: equal amounts come out in reverse
sorted_desc_ties_reversed(m) ==
    LET before(i, j) == m[i].amount > m[j].amount \/ (m[i].amount = m[j].amount /\ i > j)
        place(i) == 1 + Cardinality({j \in 1..Len(m) : before(j, i)})
    IN  [k \in 1..Len(m) |-> m[CHOOSE i \in 1..Len(m) : place(i) = k]]

\* sorted(expenses.items(), key=lambda x: x[1], reverse=True): stable, so equal
\* amounts keep their insertion order
sorted_desc(m) ==
    LET before(i, j) == m[i].amount > m[j].amount \/ (m[i].amount = m[j].amount /\ i < j)
        place(i) == 1 + Cardinality({j \in 1..Len(m) : before(j, i)})
    IN  [k \in 1..Len(m) |-> m[CHOOSE i \in 1..Len(m) : place(i) = k]]

\* seq[:n]
Take(seq, n) == SubSeq(seq, 1, IF Len(seq) < n THEN Len(seq) ELSE n)

\* the runway with the divisor taken as it is
emergency_months_unfloored(inc, total_expenses) ==
    IF inc > total_expenses
    THEN RoundHalfEven(100 * inc * 3, inc - total_expenses)
    ELSE 0

\* the runway reported as 0 whenever nothing is spent
emergency_months_zero_without_expenses(inc, total_expenses) ==
    IF inc > total_expenses /\ total_expenses # 0
    THEN RoundHalfEven(100 * inc * 3,
                       IF inc - total_expenses > TICKS THEN inc - total_expenses ELSE TICKS)
    ELSE 0

\* round((income * 3) / max(1, income - total_expenses), 2)
\*     if income > total_expenses else 0, in hundredths of a month
emergency_months(inc, total_expenses) ==
    IF inc > total_expenses
    THEN RoundHalfEven(100 * inc * 3,
                       IF inc - total_expenses > TICKS THEN inc - total_expenses ELSE TICKS)
    ELSE 0

compute_summary(inc, exps, goal) ==
    LET total_expenses == Round2(SumAmounts(exps))
        top == Take(sorted_desc(exps), 3)
        surplus == Round2(inc - total_expenses - goal)
    IN  [ income |-> inc,
          total_expenses |-> total_expenses,
          savings_goal |-> goal,
          savings_rate |-> pct(goal, inc),
          expense_shares |->
              [i \in 1..Len(exps) |->
                  [cat |-> exps[i].cat, amount |-> Round2(exps[i].amount),
                   pct |-> pct(exps[i].amount, inc)]],
          top_categories |-> [i \in 1..Len(top) |-> top[i].cat],
          surplus |-> surplus,
          surplus_positive |-> surplus >= 0,
          emergency_fund_months |-> emergency_months(inc, total_expenses) ]

\* a caller has its arguments ready
FinanceInit ==
    /\ OPENROUTER_API_KEY = "" /\ USE_HF_GRANITE = FALSE /\ HF_API_TOKEN = "" /\ HF_TEXT_MODEL = ""
    /\ DispatchIdle /\ AuthIdle
    /\ fpc = "input"
    /\ income \in Incomes
    /\ expenses \in ExpenseMaps
    /\ savings_goal \in Goals
    /\ summary = NoSummary
    /\ RulesIdle /\ GoalIdle /\ SessionIdle

\* summary = compute_summary(income, expenses, savings_goal)
ComputeSummary ==
    /\ fpc = "input"
    /\ summary' = compute_summary(income, expenses, savings_goal)
    /\ fpc' = "computed"
    /\ UNCHANGED <<income, expenses, savings_goal, configVars, authVars, dispatchVars,
                   ruleVars, goalVars, sessionVars>>

FinanceNext == ComputeSummary

SpecFinance == FinanceInit /\ [][FinanceNext]_vars

(***************************************************************************)
(* C10 (as stated): for every income <= 0, zero and negative alike, the    *)
(* summary's savings rate is 0.                                            *)
(***************************************************************************)
C10_ZeroRateForNonPositiveIncome ==
    (fpc = "computed" /\ income <= 0) => summary.savings_rate = 0

\* income - totalExpenses of a computed summary, in ticks
SummaryGap == summary.income - summary.total_expenses

(***************************************************************************)
(* C11 (as stated): emergencyFundMonths is 0 when income <= totalExpenses  *)
(* and otherwise 3 * income / (income - totalExpenses) rounded to two      *)
(* decimals, also when the gap is positive but smaller than 1.             *)
(***************************************************************************)
C11_RunwayDividesByGap ==
    fpc = "computed" =>
        summary.emergency_fund_months =
            IF SummaryGap <= 0 THEN 0
            ELSE RoundHalfEven(100 * 3 * summary.income, SummaryGap)

(***************************************************************************)
(* C11 (amended): emergencyFundMonths is 0 when income <= totalExpenses    *)
(* and otherwise 3 * income / max(1, income - totalExpenses) rounded to    *)
(* two decimals: a positive gap smaller than 1 divides as 1.               *)
(***************************************************************************)
C11_RunwayDividesByFlooredGap ==
    fpc = "computed" =>
        summary.emergency_fund_months =
            IF SummaryGap <= 0 THEN 0
            ELSE IF SummaryGap < TICKS
                 THEN RoundHalfEven(100 * 3 * summary.income, TICKS)
                 ELSE RoundHalfEven(100 * 3 * summary.income, SummaryGap)

\* a summary whose gap is positive and below one rupee, with expenses
C11_Witness ==
    /\ fpc = "computed"
    /\ SummaryGap > 0 /\ SummaryGap < TICKS
    /\ summary.total_expenses > 0
    /\ summary.emergency_fund_months = RoundHalfEven(100 * 3 * summary.income, TICKS)

\* the arguments of C12: a positive income, no expenses, no savings goal
NothingSpentNothingSaved == income > 0 /\ expenses = <<>> /\ savings_goal = 0

UPPERCASE ==
    <<"A", "B", "C", "D", "E", "F", "G", "H", "I", "J", "K", "L", "M",
      "N", "O", "P", "Q", "R", "S", "T", "U", "V", "W", "X", "Y", "Z">>
LOWERCASE ==
    <<"a", "b", "c", "d", "e", "f", "g", "h", "i", "j", "k", "l", "m",
      "n", "o", "p", "q", "r", "s", "t", "u", "v", "w", "x", "y", "z">>

\* str.lower(), character by character
lower(str) ==
    [i \in 1..Len(str) |->
        IF \E k \in 1..Len(UPPERCASE) : UPPERCASE[k] = str[i]
        THEN LOWERCASE[CHOOSE k \in 1..Len(UPPERCASE) : UPPERCASE[k] = str[i]]
        ELSE str[i]]

\* `x or default` for a str or None
py_or(x, default) == IF x = NoText \/ x = <<>> THEN default ELSE x

STU == <<"s", "t", "u">>
PRO == <<"p", "r", "o">>
STUDENT_LABEL == <<"S", "t", "u", "d", "e", "n", "t">>
PROFESSIONAL_LABEL == <<"P", "r", "o", "f", "e", "s", "s", "i", "o", "n", "a", "l">>

\* the caps of the two profiles, in hundredths of the income
STUDENT_CAPS ==
    [Rent |-> 35, Transport |-> 12, Dining |-> 8, Subscriptions |-> 4, Taxes |-> 10]
PROFESSIONAL_CAPS ==
    [Rent |-> 30, Transport |-> 15, Dining |-> 10, Subscriptions |-> 5, Taxes |-> 15]

\* the first four chat presets of each profile, one token each
STUDENT_PRESETS ==
    <<"I'm a student - how do I save on food and commute?",
      "Best way to start a Rs1000 SIP?",
      "How much should my hostel rent be?",
      "Tips to build a small emergency fund?">>
PROFESSIONAL_PRESETS ==
    <<"How do I reduce taxes safely?",
      "Is 50/30/20 right for me?",
      "Best way to save Rs25k by December?",
      "Where am I overspending?">>

\* a profile that is Student whenever the label contains "stu"
persona_config_contains(label) ==
    IF Contains(lower(py_or(label, PROFESSIONAL_LABEL)), STU)
    THEN [name |-> "Student", caps |-> STUDENT_CAPS, chat_presets |-> STUDENT_PRESETS]
    ELSE [name |-> "Professional", caps |-> PROFESSIONAL_CAPS,
          chat_presets |-> PROFESSIONAL_PRESETS]

\* persona_config(persona): name, caps and chat presets of the profile (the
\* emoji, banner, default categories and goal hint are display constants)
persona_config(label) ==
    IF startswith(lower(py_or(label, PROFESSIONAL_LABEL)), STU)
    THEN [name |-> "Student", caps |-> STUDENT_CAPS, chat_presets |-> STUDENT_PRESETS]
    ELSE [name |-> "Professional", caps |-> PROFESSIONAL_CAPS,
          chat_presets |-> PROFESSIONAL_PRESETS]

(***************************************************************************)
(* The advisory rules: finance_logic.rules on a summary, and app.py's      *)
(* budget_rules on the raw budget.  A fraction of the income is written in *)
(* hundredths, and `spend > fraction * income` is compared exactly.        *)
(***************************************************************************)
\* d.get(k, 0) on the items of a dict category -> amount
amount_get(items, k) ==
    IF \E i \in 1..Len(items) : items[i].cat = k
    THEN items[CHOOSE i \in 1..Len(items) : items[i].cat = k].amount
    ELSE 0

\* caps.get(k, default)
caps_get(caps, k, default) == IF k \in DOMAIN caps THEN caps[k] ELSE default

\* spend > (fraction / 100) * inc
Exceeds(spend, fraction, inc) == 100 * spend > fraction * inc

\* the tips of the candidates that fired, in the order of the candidates
Fired(candidates) ==
    LET fired == SelectSeq(candidates, LAMBDA c : c.fired)
    IN  [i \in 1..Len(fired) |-> fired[i].tip]

\* the literal fractions of finance_logic.rules
RULE_FRACTIONS ==
    [Rent |-> 30, Transport |-> 15, Dining |-> 10, Subscriptions |-> 5, Taxes |-> 15]
SAVINGS_RATE_TARGET == 20 * 100
RULES_MAX_TIPS == 6

RENT_TIP == "Rent >30% of income - consider renegotiating, sharing, or relocating."
TRANSPORT_TIP == "Transport >15% - explore passes, pooling, or WFH days."
DINING_TIP == "Dining >10% - set a weekly cap and meal-prep twice a week."
SUBSCRIPTIONS_TIP == "Subscriptions >5% - cancel duplicates or annualize for discounts."
SAVINGS_TIP ==
    "Increase savings rate toward 20% (50/30/20 rule). Automate transfers on payday."
TAXES_TIP ==
    "Taxes >15% - review declarations, eligible deductions/exemptions, and confirm you're on the right tax regime."
NEGATIVE_SURPLUS_TIP ==
    "Negative surplus - pause wants for a month and sell one unused item to plug the gap."
STUDENT_TIP ==
    "Student tip: use student IDs for transit/OTT discounts and library resources."
PRO_TIP == "Pro tip: set up salary auto-sweep into liquid fund for idle cash."

\* lines 33-57 of rules with the five fractions as a parameter
rule_tips(s, label, fractions) ==
    LET inc == s.income
        shares == s.expense_shares
        pl == lower(py_or(label, <<>>))
    IN  Fired(<<
          [fired |-> Exceeds(amount_get(shares, "Rent"), fractions.Rent, inc),
           tip |-> RENT_TIP],
          [fired |-> Exceeds(amount_get(shares, "Transport"), fractions.Transport, inc),
           tip |-> TRANSPORT_TIP],
          [fired |-> Exceeds(amount_get(shares, "Dining"), fractions.Dining, inc),
           tip |-> DINING_TIP],
          [fired |-> Exceeds(amount_get(shares, "Subscriptions"), fractions.Subscriptions, inc),
           tip |-> SUBSCRIPTIONS_TIP],
          [fired |-> s.savings_rate < SAVINGS_RATE_TARGET, tip |-> SAVINGS_TIP],
          [fired |-> Exceeds(amount_get(shares, "Taxes"), fractions.Taxes, inc),
           tip |-> TAXES_TIP],
          [fired |-> ~s.surplus_positive, tip |-> NEGATIVE_SURPLUS_TIP],
          [fired |-> startswith(pl, STU), tip |-> STUDENT_TIP],
          [fired |-> ~startswith(pl, STU) /\ startswith(pl, PRO), tip |-> PRO_TIP] >>)

\* the candidates in the opposite order
rule_candidates_reversed(s, label) ==
    LET c == rule_tips(s, label, RULE_FRACTIONS)
    IN  [i \in 1..Len(c) |-> c[Len(c) + 1 - i]]

\* the list `tips` of rules just before its return
rule_candidates(s, label) == rule_tips(s, label, RULE_FRACTIONS)

\* the last six candidates
rules_last_six(s, label) ==
    LET c == rule_candidates(s, label)
    IN  IF Len(c) <= RULES_MAX_TIPS THEN c
        ELSE SubSeq(c, Len(c) - RULES_MAX_TIPS + 1, Len(c))

\* rules(summary, persona): tips[:6]
rules(s, label) == Take(rule_candidates(s, label), RULES_MAX_TIPS)

SHOPPING_FRACTION == 10
GROCERIES_FRACTION == 15

\* f"Rent >{int(cap * 100)}% - ..."
AppRentTip(cap) ==
    "Rent >" \o ToString(cap) \o "% - consider renegotiating, sharing, or relocating."
APP_TRANSPORT_TIP == "Transport high - use passes/pooling or WFH where possible."
APP_DINING_TIP == "Dining high - set a weekly cap and meal-prep twice a week."
APP_SUBSCRIPTIONS_TIP == "Subscriptions high - cancel duplicates or annualize for discounts."
APP_TAXES_TIP == "Taxes high - review regime choice and eligible deductions/exemptions."
SHOPPING_TIP == "Shopping >10% - move impulse buys to a monthly wishlist before purchase."
GROCERIES_TIP == "Groceries >15% - weekly list + bulk staples can cut 5-10%."

\* lines 232-248 of budget_rules for a given `inc`
budget_tips(inc, exps, caps) ==
    LET g(k) == amount_get(exps, k)
    IN  Fired(<<
          [fired |-> Exceeds(g("Rent"), caps_get(caps, "Rent", 30), inc),
           tip |-> AppRentTip(caps_get(caps, "Rent", 30))],
          [fired |-> Exceeds(g("Transport"), caps_get(caps, "Transport", 15), inc),
           tip |-> APP_TRANSPORT_TIP],
          [fired |-> Exceeds(g("Dining"), caps_get(caps, "Dining", 10), inc),
           tip |-> APP_DINING_TIP],
          [fired |-> Exceeds(g("Subscriptions"), caps_get(caps, "Subscriptions", 5), inc),
           tip |-> APP_SUBSCRIPTIONS_TIP],
          [fired |-> Exceeds(g("Taxes"), caps_get(caps, "Taxes", 15), inc),
           tip |-> APP_TAXES_TIP],
          [fired |-> Exceeds(g("Shopping"), SHOPPING_FRACTION, inc), tip |-> SHOPPING_TIP],
          [fired |-> Exceeds(g("Groceries"), GROCERIES_FRACTION, inc), tip |-> GROCERIES_TIP] >>)

\* budget_rules comparing against the income as given
budget_rules_unfloored(inc, exps, caps) == budget_tips(inc, exps, caps)

\* budget_rules(income, expenses, caps): inc = max(1.0, float(income))
budget_rules(inc, exps, caps) == budget_tips(IF inc > TICKS THEN inc ELSE TICKS, exps, caps)

\* one eighth of a rupee, in ticks
RULE_STEP == TICKS \div 8
\* what a category of the budget holds: nothing (0), 0.125 or 0.375 rupee
RuleLevels == {0, RULE_STEP, 3 * RULE_STEP}
RuleCategories == <<"Rent", "Transport", "Dining", "Subscriptions", "Taxes">>

\* the dict holding the categories whose level is not 0, in the order above
RuleMap(level) ==
    LET items == [i \in 1..Len(RuleCategories) |->
                     [cat |-> RuleCategories[i], amount |-> level[i]]]
    IN  SelectSeq(items, LAMBDA it : it.amount # 0)

\* the two categories only budget_rules looks at
RuleExtras ==
    { <<>>,
      <<[cat |-> "Shopping", amount |-> RULE_STEP], [cat |-> "Groceries", amount |-> RULE_STEP]>>,
      <<[cat |-> "Shopping", amount |-> RULE_STEP],
        [cat |-> "Groceries", amount |-> 3 * RULE_STEP]>> }

RuleExpenseMaps ==
    {RuleMap(level) \o extra :
        level \in [1..Len(RuleCategories) -> RuleLevels], extra \in RuleExtras}

RuleGoals == {0, INCOME_GRID}

RulePersonas ==
    { <<"S", "T", "U", "D", "E", "N", "T">>,
      PROFESSIONAL_LABEL,
      <<"F", "r", "e", "e", "l", "a", "n", "c", "e", "r">>,
      NoText }

\* a budget and a persona label are ready
RulesInit ==
    /\ OPENROUTER_API_KEY = "" /\ USE_HF_GRANITE = FALSE /\ HF_API_TOKEN = "" /\ HF_TEXT_MODEL = ""
    /\ DispatchIdle /\ AuthIdle
    /\ fpc = "input"
    /\ income \in Incomes
    /\ expenses \in RuleExpenseMaps
    /\ savings_goal \in RuleGoals
    /\ summary = NoSummary
    /\ persona \in RulePersonas
    /\ tips = NoText
    /\ app_tips = NoText
    /\ GoalIdle /\ SessionIdle

\* tips = rules(summary, persona)
EvaluateRules ==
    /\ fpc = "computed"
    /\ tips' = rules(summary, persona)
    /\ fpc' = "advised"
    /\ UNCHANGED <<income, expenses, savings_goal, summary, persona, app_tips,
                   configVars, authVars, dispatchVars, goalVars, sessionVars>>

\* the Budget page: CFG = persona_config(persona) (line 314), then
\* tips = budget_rules(income, expenses, CFG["caps"]) (line 432)
AnalyzeBudget ==
    /\ fpc = "advised"
    /\ CFG' = persona_config(persona)
    /\ app_tips' = budget_rules(income, expenses, CFG'.caps)
    /\ fpc' = "analyzed"
    /\ UNCHANGED <<income, expenses, savings_goal, summary, persona, tips,
                   page, chat_history, chat_persona, cpc, prompt,
                   configVars, authVars, dispatchVars, goalVars>>

RulesNext == ComputeSummary \/ EvaluateRules \/ AnalyzeBudget

SpecRules == RulesInit /\ [][RulesNext]_vars

\* rules has returned
RulesReturned == fpc \in {"advised", "analyzed"}

\* the position of an advisory in the ordered candidate list of rules: Rent,
\* Transport, Dining, Subscriptions, savings rate, Taxes, negative surplus,
\* persona closing tip
TipRank(tip) ==
    CASE tip = RENT_TIP -> 1
      [] tip = TRANSPORT_TIP -> 2
      [] tip = DINING_TIP -> 3
      [] tip = SUBSCRIPTIONS_TIP -> 4
      [] tip = SAVINGS_TIP -> 5
      [] tip = TAXES_TIP -> 6
      [] tip = NEGATIVE_SURPLUS_TIP -> 7
      [] tip \in {STUDENT_TIP, PRO_TIP} -> 8
      [] OTHER -> 0

\* the advisories in a list keep the candidate order, none twice
InCandidateOrder(list) ==
    /\ \A i \in 1..Len(list) : TipRank(list[i]) > 0
    /\ \A i, j \in 1..Len(list) : i < j => TipRank(list[i]) < TipRank(list[j])

(***************************************************************************)
(* C13: rules returns at most 6 advisories: exactly the first min(6, n)    *)
(* entries of the n candidates that fired, taken in the order Rent,        *)
(* Transport, Dining, Subscriptions, savings rate, Taxes, negative         *)
(* surplus, persona closing tip; only trailing entries are dropped.        *)
(***************************************************************************)
C13_FirstSixInOrder ==
    RulesReturned =>
        LET candidates == rule_candidates(summary, persona)
            n == Len(candidates)
            kept == IF n < 6 THEN n ELSE 6
        IN  /\ Len(tips) <= 6
            /\ Len(tips) = kept
            /\ \A i \in 1..kept : tips[i] = candidates[i]
            /\ InCandidateOrder(candidates)
            /\ InCandidateOrder(tips)

\* all eight candidates fired and the last two were dropped
C13_Witness ==
    /\ RulesReturned
    /\ Len(rule_candidates(summary, persona)) = 8
    /\ tips = <<RENT_TIP, TRANSPORT_TIP, DINING_TIP, SUBSCRIPTIONS_TIP, SAVINGS_TIP, TAXES_TIP>>

\* the five categories that have a persona cap
CappedCategories == {"Rent", "Transport", "Dining", "Subscriptions", "Taxes"}

InList(list, x) == \E i \in 1..Len(list) : list[i] = x

\* budget_rules both ran and returned
BudgetAnalyzed == fpc = "analyzed"

\* the returned list of rules holds the advisory of category k
RuleFired(k) ==
    InList(tips, CASE k = "Rent" -> RENT_TIP
                   [] k = "Transport" -> TRANSPORT_TIP
                   [] k = "Dining" -> DINING_TIP
                   [] k = "Subscriptions" -> SUBSCRIPTIONS_TIP
                   [] k = "Taxes" -> TAXES_TIP)

\* the returned list of budget_rules holds the advisory of category k
AppFired(k) ==
    \/ k = "Rent" /\ \E cap \in 0..100 : InList(app_tips, AppRentTip(cap))
    \/ k = "Transport" /\ InList(app_tips, APP_TRANSPORT_TIP)
    \/ k = "Dining" /\ InList(app_tips, APP_DINING_TIP)
    \/ k = "Subscriptions" /\ InList(app_tips, APP_SUBSCRIPTIONS_TIP)
    \/ k = "Taxes" /\ InList(app_tips, APP_TAXES_TIP)

\* the caps the claim lists, in hundredths of the income
ClaimedCaps ==
    [Student |->
        [Rent |-> 35, Transport |-> 12, Dining |-> 8, Subscriptions |-> 4, Taxes |-> 10],
     Professional |->
        [Rent |-> 30, Transport |-> 15, Dining |-> 10, Subscriptions |-> 5, Taxes |-> 15]]

\* the claimed cap of category k for the persona selected on the page
SelectedCap(k) == ClaimedCaps[CFG.name][k]

(***************************************************************************)
(* C14 (as stated): for each of Rent, Transport, Dining, Subscriptions and *)
(* Taxes the rule evaluator (rules on the summary, budget_rules on the     *)
(* budget) fires the category's advisory exactly when the category's spend *)
(* is greater than cap * income, cap being the selected persona's cap, for *)
(* every income including 0.                                               *)
(***************************************************************************)
C14_FiresAboveCapTimesIncome ==
    BudgetAnalyzed =>
        \A k \in CappedCategories :
            /\ AppFired(k) <=> Exceeds(amount_get(expenses, k), SelectedCap(k), income)
            /\ RuleFired(k) <=>
                   Exceeds(amount_get(summary.expense_shares, k), SelectedCap(k), income)

(***************************************************************************)
(* C14 (amended): budget_rules fires the category's advisory exactly when  *)
(* the category's spend is greater than cap * max(1, income), cap being    *)
(* the selected persona's cap, so an income below 1 (0 included) counts as *)
(* 1; rules fires it exactly when the summary's amount of the category is  *)
(* greater than the literal fraction (0.30, 0.15, 0.10, 0.05, 0.15) times  *)
(* the income, whatever the persona.                                       *)
(***************************************************************************)
C14_FiresAboveCapTimesFlooredIncome ==
    BudgetAnalyzed =>
        \A k \in CappedCategories :
            /\ AppFired(k) <=>
                   Exceeds(amount_get(expenses, k), SelectedCap(k),
                           IF income > TICKS THEN income ELSE TICKS)
            /\ RuleFired(k) <=>
                   Exceeds(amount_get(summary.expense_shares, k),
                           ClaimedCaps.Professional[k], income)

\* income 0, Student caps: a category above its cap of one rupee fired and a
\* category with a positive spend below it did not
C14_Witness ==
    /\ BudgetAnalyzed
    /\ income = 0
    /\ CFG.name = "Student"
    /\ \E k \in CappedCategories : AppFired(k)
    /\ \E k \in CappedCategories : amount_get(expenses, k) > 0 /\ ~AppFired(k)

\* the summary's Rent amount is greater than 30% of a positive income
RentAboveThirtyPercent ==
    summary.income > 0 /\ 100 * amount_get(summary.expense_shares, "Rent") > 30 * summary.income

MaxDays == 91
MaxGoalStep == 2
DAYS_PER_MONTH == 30

\* the days to the deadline; a deadline may lie in the past
DaysLeft == (0 - MaxDays)..MaxDays
\* what goal_plan may be handed: any number, negative ones too
PlanAmounts == {k * INCOME_GRID : k \in (0 - 1)..MaxGoalStep}
TargetAmounts == PlanAmounts \cup {10000 * TICKS}
CurrentSavings == PlanAmounts \cup {1000 * TICKS}
MonthlySurpluses == PlanAmounts \cup {3000 * TICKS}

\* int(days_left / 30): the months cut off, not rounded
months_left_truncated(days) ==
    LET m == IF days >= 0 THEN days \div DAYS_PER_MONTH
             ELSE 0 - ((0 - days) \div DAYS_PER_MONTH)
    IN  IF m > 1 THEN m ELSE 1

\* max(1, round(days_left / 30))
months_left(days) ==
    LET m == RoundHalfEven(days, DAYS_PER_MONTH)
    IN  IF m > 1 THEN m ELSE 1

\* max(0.0, round((target_amount - current_savings) / months_left, 2))
needed_monthly(target, current, months) ==
    LET n == CENT * RoundHalfEven(target - current, CENT * months)
    IN  IF n > 0 THEN n ELSE 0

\* a plan that calls every goal needing nothing feasible
goal_plan_nothing_needed_is_feasible(target, days, current, surplus) ==
    LET m == months_left(days)
        n == needed_monthly(target, current, m)
    IN  [months_left |-> m, needed_monthly |-> n, feasible |-> (n = 0 \/ surplus >= n)]

\* goal_plan(target_amount, deadline, current_savings, monthly_surplus)
goal_plan(target, days, current, surplus) ==
    LET m == months_left(days)
        n == needed_monthly(target, current, m)
    IN  [months_left |-> m, needed_monthly |-> n, feasible |-> surplus >= n]

\* the Goals page under "Plan Goal": months_left, needed_monthly, feasible
goals_page_plan(target, days, current, surplus_hint) ==
    LET m == months_left(days)
        n == needed_monthly(target, current, m)
    IN  [months_left |-> m, needed_monthly |-> n, feasible |-> surplus_hint >= n]

\* a caller of goal_plan has its arguments ready, or the Goals page its
\* inputs, which are number inputs with min_value 0.0
GoalInit ==
    /\ OPENROUTER_API_KEY = "" /\ USE_HF_GRANITE = FALSE /\ HF_API_TOKEN = "" /\ HF_TEXT_MODEL = ""
    /\ DispatchIdle /\ AuthIdle /\ FinanceIdle /\ RulesIdle /\ SessionIdle
    /\ gpc = "input"
    /\ planner \in {"goal_plan", "Goals page"}
    /\ days_left \in DaysLeft
    /\ target_amount \in TargetAmounts
    /\ current_savings \in CurrentSavings
    /\ monthly_surplus \in MonthlySurpluses
    /\ planner = "Goals page" =>
           (target_amount >= 0 /\ current_savings >= 0 /\ monthly_surplus >= 0)
    /\ plan = NoPlan

\* plan = goal_plan(target_amount, deadline, current_savings, monthly_surplus)
GoalPlan ==
    /\ gpc = "input" /\ planner = "goal_plan"
    /\ plan' = goal_plan(target_amount, days_left, current_savings, monthly_surplus)
    /\ gpc' = "planned"
    /\ UNCHANGED <<target_amount, days_left, current_savings, monthly_surplus, planner,
                   configVars, authVars, dispatchVars, financeVars, ruleVars, sessionVars>>

\* the "Plan Goal" button of the Goals page
PlanGoalButton ==
    /\ gpc = "input" /\ planner = "Goals page"
    /\ plan' = goals_page_plan(target_amount, days_left, current_savings, monthly_surplus)
    /\ gpc' = "planned"
    /\ UNCHANGED <<target_amount, days_left, current_savings, monthly_surplus, planner,
                   configVars, authVars, dispatchVars, financeVars, ruleVars, sessionVars>>

GoalNext == GoalPlan \/ PlanGoalButton

SpecGoal == GoalInit /\ [][GoalNext]_vars

\* a plan was computed for a target below the current savings
GoalAlreadyMet == gpc = "planned" /\ target_amount < current_savings

(***************************************************************************)
(* C16 (as stated): whenever the target is below the current savings, for  *)
(* every deadline and every monthly surplus hint goal_plan accepts,        *)
(* neededMonthly is 0 and feasible is true.                                *)
(***************************************************************************)
C16_MetGoalAlwaysFeasible ==
    (GoalAlreadyMet /\ planner = "goal_plan") =>
        (plan.needed_monthly = 0 /\ plan.feasible)

(***************************************************************************)
(* C16 (amended): whenever the target is below the current savings, for    *)
(* every deadline neededMonthly is 0, and feasible is true exactly when    *)
(* the monthly surplus hint is not negative: always on the Goals page,     *)
(* whose inputs start at 0, but not for a negative hint, which goal_plan   *)
(* accepts and reports as infeasible.                                      *)
(***************************************************************************)
C16_MetGoalFeasibleUnlessNegativeHint ==
    GoalAlreadyMet =>
        /\ plan.needed_monthly = 0
        /\ plan.feasible <=> monthly_surplus >= 0
        /\ planner = "Goals page" => plan.feasible

\* goal_plan was handed a met goal and a negative surplus hint
C16_Witness ==
    /\ GoalAlreadyMet /\ planner = "goal_plan"
    /\ monthly_surplus < 0
    /\ plan.needed_monthly = 0 /\ ~plan.feasible

(***************************************************************************)
(* C17: monthsLeft is max(1, round(daysUntilDeadline / 30)): at least 1    *)
(* for every deadline, exactly 1 for a deadline today or in the past, and  *)
(* 3 for a deadline 90 days ahead, which for target 10000, current 1000    *)
(* and surplus hint 3000 gives neededMonthly 3000.0 and feasible true.     *)
(***************************************************************************)
C17_MonthsLeftFlooredAtOne ==
    gpc = "planned" =>
        /\ plan.months_left >= 1
        /\ plan.months_left =
               (IF RoundHalfEven(days_left, 30) > 1 THEN RoundHalfEven(days_left, 30) ELSE 1)
        /\ days_left <= 0 => plan.months_left = 1
        /\ days_left = 90 => plan.months_left = 3
        /\ (/\ days_left = 90 /\ target_amount = 10000 * TICKS
            /\ current_savings = 1000 * TICKS /\ monthly_surplus = 3000 * TICKS)
               => (plan.needed_monthly = 3000 * TICKS /\ plan.feasible)

\* the 90-day example, planned by goal_plan
C17_Witness ==
    /\ gpc = "planned" /\ planner = "goal_plan"
    /\ days_left = 90 /\ target_amount = 10000 * TICKS
    /\ current_savings = 1000 * TICKS /\ monthly_surplus = 3000 * TICKS
    /\ plan = [months_left |-> 3, needed_monthly |-> 3000 * TICKS, feasible |-> TRUE]

(***************************************************************************)
(* The persona resolver on its own: persona_config on every short label    *)
(* over a small alphabet, some longer ones, the empty label and None.      *)
(***************************************************************************)
MaxLabelLen == 4

LabelAlphabet == {"s", "S", "t", "T", "u", "U", "x"}

PersonaLabels ==
    UNION {[1..n -> LabelAlphabet] : n \in 0..MaxLabelLen}
    \cup { NoText,
            <<"s", "t", "u", "d", "e", "n", "t">>,
            STUDENT_LABEL \o <<"1", "2", "3">>,
            PROFESSIONAL_LABEL,
            <<" ">> \o STUDENT_LABEL }

\* a caller of persona_config has its label ready
PersonaInit ==
    /\ OPENROUTER_API_KEY = "" /\ USE_HF_GRANITE = FALSE /\ HF_API_TOKEN = "" /\ HF_TEXT_MODEL = ""
    /\ DispatchIdle /\ AuthIdle /\ FinanceIdle /\ GoalIdle
    /\ persona \in PersonaLabels
    /\ tips = NoText /\ app_tips = NoText
    /\ CFG = NoCfg
    /\ page = "" /\ chat_history = <<>> /\ chat_persona = "" /\ cpc = "off" /\ prompt = NoText

\* CFG = persona_config(persona)
ResolvePersona ==
    /\ CFG = NoCfg
    /\ CFG' = persona_config(persona)
    /\ UNCHANGED <<persona, tips, app_tips, page, chat_history, chat_persona, cpc, prompt,
                   configVars, authVars, dispatchVars, financeVars, goalVars>>

PersonaNext == ResolvePersona

SpecPersona == PersonaInit /\ [][PersonaNext]_vars

\* the label is a string whose first three characters are s, t, u in either case
StartsWithStuAnyCase ==
    /\ persona # NoText
    /\ Len(persona) >= 3
    /\ persona[1] \in {"s", "S"} /\ persona[2] \in {"t", "T"} /\ persona[3] \in {"u", "U"}

(***************************************************************************)
(* C18: persona_config returns a profile for every label, the empty, the   *)
(* missing and the unrecognised ones included; the profile is Student      *)
(* exactly when the label starts with "stu" in any mix of cases, and       *)
(* Professional otherwise.                                                 *)
(***************************************************************************)
C18_StudentIffStuPrefix ==
    CFG # NoCfg =>
        /\ CFG.name \in {"Student", "Professional"}
        /\ CFG.name = "Student" <=> StartsWithStuAnyCase
        /\ CFG.caps = ClaimedCaps[CFG.name]

\* a mixed-case label that starts with "stu" resolved to Student
C18_Witness ==
    /\ CFG # NoCfg /\ CFG.name = "Student"
    /\ persona = <<"S", "T", "u", "x">>

(***************************************************************************)
(* The chat prompt builder: chat_system_prompt and make_chat_prompt.  A    *)
(* turn is a record [role, content]; contents and prompts are texts.       *)
(***************************************************************************)
CHAT_WINDOW == 8
MaxHistory == 9

STUDENT_ROLE ==
    "You are BudgetBee, a friendly finance coach for a COLLEGE STUDENT in India (Rs). Use simple sentences and low-cost ideas (student discounts, shared housing, public transport, meal prep, beginner SIPs, basic tax deductions 80C)."
PROFESSIONAL_ROLE ==
    "You are BudgetBee, a concise finance coach for a WORKING PROFESSIONAL in India (Rs). Be direct and action-oriented: tax regime choice, 80C/80D planning, emergency fund sizing, automated SIPs/asset allocation, and expense caps. No product endorsements."
CHAT_SAFETY ==
    " Keep answers safe and general (not legal/tax advice). When user gives numbers, use them. Prefer 3-5 crisp bullets and a 1-line Next step."
CHAT_GUIDELINES ==
    <<"Guidelines:", "\n",
      "- If the user greets you, greet back briefly and ask one relevant question about their goal.", "\n",
      "- If the user asks a finance question, answer directly and concisely.", "\n",
      "- Use bullets only when it helps clarity (don't force them).", "\n",
      "- Ask at most one short follow-up when information is missing.", "\n",
      "- Keep answers within 5-8 short sentences unless the user asks for detail.", "\n">>

\* the characters of a profile name, as persona_config receives it back
Spell(name) == IF name = "Student" THEN STUDENT_LABEL ELSE PROFESSIONAL_LABEL

\* chat_system_prompt(persona)
chat_system_prompt(name) ==
    IF persona_config(Spell(name)).name = "Student"
    THEN <<STUDENT_ROLE, CHAT_SAFETY>>
    ELSE <<PROFESSIONAL_ROLE, CHAT_SAFETY>>

\* sep.join(parts) for a list of texts
RECURSIVE Join(_, _)
Join(parts, sep) ==
    IF parts = <<>> THEN <<>>
    ELSE IF Len(parts) = 1 THEN parts[1]
    ELSE parts[1] \o sep \o Join(Tail(parts), sep)

\* list[-n:]
LastN(list, n) == SubSeq(list, IF Len(list) > n THEN Len(list) - n + 1 ELSE 1, Len(list))

\* ("User: " + m["content"]) if m["role"] == "user" else ("Assistant: " + m["content"])
TurnLine(m) == IF m.role = "user" THEN <<"User: ">> \o m.content ELSE <<"Assistant: ">> \o m.content

\* lines 210-227 of make_chat_prompt for a given `turns`
chat_prompt_of(name, turns) ==
    chat_system_prompt(name)
        \o <<"\n", "\n", "Conversation:", "\n">>
        \o Join([i \in 1..Len(turns) |-> TurnLine(turns[i])], <<"\n">>)
        \o <<"\n", "\n">> \o CHAT_GUIDELINES

\* a prompt built from the first eight turns
make_chat_prompt_oldest_turns(name, history) ==
    chat_prompt_of(name, Take(history, CHAT_WINDOW))

\* a prompt built from the history as it was before its last turn was appended
make_chat_prompt_before_append(name, history) ==
    chat_prompt_of(name, LastN(SubSeq(history, 1, Len(history) - 1), CHAT_WINDOW))

\* make_chat_prompt(persona, history): turns = history[-8:]
make_chat_prompt(name, history) == chat_prompt_of(name, LastN(history, CHAT_WINDOW))

\* the content of the i-th stored turn: a one-line message of the user, or an
\* answer of two lines
TurnContent(i, role) ==
    IF role = "user" THEN <<"message " \o ToString(i)>>
    ELSE <<"answer " \o ToString(i), "\n", "next step " \o ToString(i)>>

TurnRoles == {"user", "assistant", "system"}

\* histories of every length up to MaxHistory: user and assistant turns in
\* any order, and at most one turn with another role
Histories ==
    UNION {
        {[i \in 1..n |-> [role |-> r[i], content |-> TurnContent(i, r[i])]] :
            r \in {q \in [1..n -> TurnRoles] :
                      Cardinality({i \in 1..n : q[i] = "system"}) <= 1}}
        : n \in 0..MaxHistory}

\* a caller of make_chat_prompt has a profile name and a history
PromptInit ==
    /\ OPENROUTER_API_KEY = "" /\ USE_HF_GRANITE = FALSE /\ HF_API_TOKEN = "" /\ HF_TEXT_MODEL = ""
    /\ DispatchIdle /\ AuthIdle /\ FinanceIdle /\ RulesIdle /\ GoalIdle
    /\ CFG \in {persona_config(STUDENT_LABEL), persona_config(PROFESSIONAL_LABEL)}
    /\ page = ""
    /\ chat_history \in Histories
    /\ chat_persona = CFG.name
    /\ cpc = "prompting"
    /\ prompt = NoText

\* prompt = make_chat_prompt(CFG["name"], st.session_state.chat_history)
MakeChatPrompt ==
    /\ cpc = "prompting"
    /\ prompt' = make_chat_prompt(CFG.name, chat_history)
    /\ cpc' = "prompted"
    /\ UNCHANGED <<CFG, page, chat_history, chat_persona,
                   configVars, authVars, dispatchVars, financeVars, ruleVars, goalVars>>

PromptNext == MakeChatPrompt

SpecPrompt == PromptInit /\ [][PromptNext]_vars

\* make_chat_prompt has returned
Prompted == cpc = "prompted"

\* the index of the oldest of the last min(8, n) turns of the history
FirstRendered == IF Len(chat_history) > 8 THEN Len(chat_history) - 8 + 1 ELSE 1

\* the rendering the claim gives to the i-th stored turn
RenderedTurn(i) ==
    (IF chat_history[i].role = "user" THEN <<"User: ">> ELSE <<"Assistant: ">>)
        \o chat_history[i].content

\* the renderings of turns i .. n, each but the last followed by a newline
RECURSIVE RenderedFrom(_)
RenderedFrom(i) ==
    IF i > Len(chat_history) THEN <<>>
    ELSE IF i = Len(chat_history) THEN RenderedTurn(i)
    ELSE RenderedTurn(i) \o <<"\n">> \o RenderedFrom(i + 1)

(***************************************************************************)
(* C19: for a history of n turns make_chat_prompt renders exactly the last *)
(* min(8, n) turns, in their order, each as "User: " + content for role    *)
(* user and "Assistant: " + content for any other role, one per line       *)
(* between the "Conversation:" line and the guidelines; no older turn      *)
(* appears anywhere in the prompt.                                         *)
(***************************************************************************)
C19_LastEightTurnsRendered ==
    Prompted =>
        /\ prompt = chat_system_prompt(CFG.name)
                       \o <<"\n", "\n", "Conversation:", "\n">>
                       \o RenderedFrom(FirstRendered)
                       \o <<"\n", "\n">> \o CHAT_GUIDELINES
        /\ \A i \in 1..Len(chat_history) :
               Contains(prompt, chat_history[i].content) <=> i >= FirstRendered
        /\ \A i \in FirstRendered..Len(chat_history) : Contains(prompt, RenderedTurn(i))

\* nine turns: the first is left out, the second, of another role than user
\* or assistant, is the first rendered
C19_Witness ==
    /\ Prompted
    /\ Len(chat_history) = 9
    /\ chat_history[2].role = "system"
    /\ ~Contains(prompt, chat_history[1].content)
    /\ Contains(prompt, <<"Conversation:", "\n", "Assistant: ">> \o chat_history[2].content)

(***************************************************************************)
(* One browser session.  Every widget interaction reruns the script from   *)
(* the top: sidebar (309-310), CFG (314), chat state (317-321), then the   *)
(* selected page.  The Chat page's run is split where it blocks in         *)
(* ask_llm; the user acts between runs.                                    *)
(***************************************************************************)
MaxTurns == 4

Pages == {"Chat", "Budget", "Goals", "About"}
PersonaOptions == {STUDENT_LABEL, PROFESSIONAL_LABEL}
\* what the user may type into the chat input
UserMessages == {<<"How much should I save each month?">>}
\* what ask_llm may return
ChatAnswers == {STATIC_TIPS, <<"Track your spending and start a SIP.">>}

\* a history that survives a change of persona
reset_history_never(history, stored_persona, cfg) == history

\* lines 319-321: the history the run continues with
reset_history(history, stored_persona, cfg) ==
    IF stored_persona # cfg.name THEN <<>> ELSE history

\* the first run of a session: radio index 0, selectbox index 1, lines 314-318
ChatInit ==
    /\ OPENROUTER_API_KEY = "" /\ USE_HF_GRANITE = FALSE /\ HF_API_TOKEN = "" /\ HF_TEXT_MODEL = ""
    /\ DispatchIdle /\ AuthIdle /\ FinanceIdle /\ GoalIdle
    /\ persona = PROFESSIONAL_LABEL
    /\ tips = NoText /\ app_tips = NoText
    /\ CFG = persona_config(PROFESSIONAL_LABEL)
    /\ page = "Chat"
    /\ chat_history = <<>>
    /\ chat_persona = persona_config(PROFESSIONAL_LABEL).name
    /\ cpc = "idle"
    /\ prompt = NoText

\* the user picks another page in the sidebar radio
SwitchPage(p) ==
    /\ cpc = "idle"
    /\ p # page
    /\ page' = p
    /\ CFG' = persona_config(persona)
    /\ chat_history' = reset_history(chat_history, chat_persona, CFG')
    /\ chat_persona' = CFG'.name
    /\ UNCHANGED <<persona, tips, app_tips, cpc, prompt,
                   configVars, authVars, dispatchVars, financeVars, goalVars>>

\* the user picks the other option of the persona selectbox
ChangePersona(label) ==
    /\ cpc = "idle"
    /\ label # persona
    /\ persona' = label
    /\ CFG' = persona_config(label)
    /\ chat_history' = reset_history(chat_history, chat_persona, CFG')
    /\ chat_persona' = CFG'.name
    /\ UNCHANGED <<page, tips, app_tips, cpc, prompt,
                   configVars, authVars, dispatchVars, financeVars, goalVars>>

\* a Chat page run with a user message: lines 314-321, then 358-366 up to
\* the call of ask_llm
ChatRun(user_msg) ==
    /\ cpc = "idle"
    /\ page = "Chat"
    /\ Len(chat_history) + 2 <= MaxTurns
    /\ CFG' = persona_config(persona)
    /\ chat_persona' = CFG'.name
    /\ chat_history' =
           Append(reset_history(chat_history, chat_persona, CFG'),
                  [role |-> "user", content |-> user_msg])
    /\ prompt' = make_chat_prompt(CFG'.name, chat_history')
    /\ cpc' = "asking"
    /\ UNCHANGED <<persona, page, tips, app_tips,
                   configVars, authVars, dispatchVars, financeVars, goalVars>>

\* the user submits the chat input (line 353)
SendMessage(msg) == ChatRun(msg)

\* the user clicks the i-th preset button: chat_input_fill is set (line 347)
\* and popped in the same run (354-356)
ClickPreset(i) ==
    /\ i \in 1..Len(CFG.chat_presets)
    /\ ChatRun(<<CFG.chat_presets[i]>>)

\* ask_llm returns and the run appends the answer (366-369)
ReceiveAnswer(answer) ==
    /\ cpc = "asking"
    /\ chat_history' = Append(chat_history, [role |-> "assistant", content |-> answer])
    /\ cpc' = "idle"
    /\ UNCHANGED <<persona, CFG, page, chat_persona, prompt, tips, app_tips,
                   configVars, authVars, dispatchVars, financeVars, goalVars>>

ChatNext ==
    \/ \E p \in Pages : SwitchPage(p)
    \/ \E label \in PersonaOptions : ChangePersona(label)
    \/ \E msg \in UserMessages : SendMessage(msg)
    \/ \E i \in 1..4 : ClickPreset(i)
    \/ \E answer \in ChatAnswers : ReceiveAnswer(answer)

SpecChat == ChatInit /\ [][ChatNext]_vars

\* list a is list b or a beginning of it
IsPrefix(a, b) == Len(a) <= Len(b) /\ SubSeq(b, 1, Len(a)) = a

(***************************************************************************)
(* C20 (as stated): within a session every user action (sending a          *)
(* message, clicking a preset, switching page, changing the persona        *)
(* selector) leaves the conversation history unchanged or extends it at    *)
(* the end; no stored turn is ever removed, reordered or altered.          *)
(***************************************************************************)
C20_HistoryAppendOnly == [][IsPrefix(chat_history, chat_history')]_vars

(***************************************************************************)
(* C20 (amended): sending a message, clicking a preset, receiving the      *)
(* answer and switching page leave the history unchanged or extend it at   *)
(* the end by one turn; changing the persona selector empties it.          *)
(***************************************************************************)
C20_AppendOnlyUntilPersonaChange ==
    [][ /\ persona' = persona =>
              /\ IsPrefix(chat_history, chat_history')
              /\ Len(chat_history') <= Len(chat_history) + 1
        /\ persona' # persona => chat_history' = <<>> ]_vars

\* a prompt was built from a stored message, and the history is empty again
C20_Witness ==
    /\ cpc = "idle"
    /\ prompt # NoText
    /\ chat_history = <<>>
    /\ chat_persona = "Student"

(***************************************************************************)
(* Top categories (finance_logic.py 17, 26): budgets with more categories  *)
(* than are listed, with equal amounts and with amounts of 0               *)
(***************************************************************************)
MaxTopCats == 4
TopCategoryPool == {"Rent", "Transport", "Dining", "Subscriptions", "Taxes"}
TopAmounts == {0, GRID, 2 * GRID}

\* dicts of up to MaxTopCats categories, in every insertion order
TopExpenseMaps ==
    UNION {
        {m \in [1..n -> [cat : TopCategoryPool, amount : TopAmounts]] :
            \A i, j \in 1..n : i # j => m[i].cat # m[j].cat}
        : n \in 0..(IF MaxTopCats < Cardinality(TopCategoryPool)
                      THEN MaxTopCats ELSE Cardinality(TopCategoryPool))}

\* a caller has a budget ready
TopInit ==
    /\ OPENROUTER_API_KEY = "" /\ USE_HF_GRANITE = FALSE /\ HF_API_TOKEN = "" /\ HF_TEXT_MODEL = ""
    /\ DispatchIdle /\ AuthIdle
    /\ fpc = "input"
    /\ income = INCOME_GRID
    /\ expenses \in TopExpenseMaps
    /\ savings_goal = 0
    /\ summary = NoSummary
    /\ RulesIdle /\ GoalIdle /\ SessionIdle

SpecTop == TopInit /\ [][FinanceNext]_vars

\* where category c sits in the expense mapping, and what it holds
PositionOf(c) == CHOOSE i \in 1..Len(expenses) : expenses[i].cat = c
AmountOf(c) == expenses[PositionOf(c)].amount
Categories == {expenses[i].cat : i \in 1..Len(expenses)}
Listed == {summary.top_categories[i] : i \in 1..Len(summary.top_categories)}

\* the categories that rank before c: a larger amount, or the same amount
\* earlier in the mapping
RankedBefore(c) ==
    {d \in Categories :
        AmountOf(d) > AmountOf(c) \/ (AmountOf(d) = AmountOf(c) /\ PositionOf(d) < PositionOf(c))}

\* C22: top_categories of a mapping with n categories lists min(3, n)
\* distinct categories of the mapping, in non-increasing order of amount; no
\* omitted category holds more than a listed one; listed categories of equal
\* amount keep the mapping's iteration order; a category of amount 0 is listed
\* whenever fewer than three categories rank before it.
C22_TopThreeStableDescending ==
    fpc = "computed" =>
        LET top == summary.top_categories
            n == Len(expenses)
        IN  /\ Len(top) = (IF n < 3 THEN n ELSE 3)
            /\ Listed \subseteq Categories
            /\ Cardinality(Listed) = Len(top)
            /\ \A i, j \in 1..Len(top) : i < j => AmountOf(top[i]) >= AmountOf(top[j])
            /\ \A c \in Categories \ Listed : \A d \in Listed : AmountOf(c) <= AmountOf(d)
            /\ \A i, j \in 1..Len(top) :
                    (i < j /\ AmountOf(top[i]) = AmountOf(top[j]))
                        => PositionOf(top[i]) < PositionOf(top[j])
            /\ \A c \in Categories :
                    (AmountOf(c) = 0 /\ Cardinality(RankedBefore(c)) < 3) => c \in Listed

\* four categories, three listed, two of them tied at 0 behind a later, larger one
C22_Witness ==
    /\ fpc = "computed"
    /\ Len(expenses) = 4
    /\ Len(summary.top_categories) = 3
    /\ expenses[1].amount = 0 /\ expenses[2].amount = 0 /\ expenses[4].amount > 0
    /\ summary.top_categories = <<expenses[4].cat, expenses[1].cat, expenses[2].cat>>

(***************************************************************************)
(* The persona of the closing tip (finance_logic.py 52-57) against the     *)
(* persona resolver (app.py 149-151) and the tone of the prompt builders   *)
(* (prompts.py 5, 21)                                                      *)
(***************************************************************************)
STUDENT_TONE == "Explain like I'm a college student. Be friendly, concrete, and action-focused."
PRO_TONE == "Explain like I'm a busy young professional. Be concise, data-driven, and specific."

\* the tone line of make_budget_prompt and of make_qa_prompt
prompt_tone(label) ==
    IF startswith(lower(py_or(label, <<>>)), STU) THEN STUDENT_TONE ELSE PRO_TONE

\* the threshold advisories among the candidates of this evaluation
ThresholdFired ==
    SelectSeq(rule_candidates(summary, persona), LAMBDA t : TipRank(t) \in 1..7)

\* the closing tip of the persona with this resolved name
TipOfPersona(name) == IF name = "Student" THEN STUDENT_TIP ELSE PRO_TIP
ToneOfPersona(name) == IF name = "Student" THEN STUDENT_TONE ELSE PRO_TONE

\* C23: when fewer than 6 threshold rules fired, the last advisory of rules
\* is the closing tip of the persona the resolver maps the label to (the
\* Student tip exactly for labels starting with 'stu' in any case, the
\* Professional tip for every other label, empty and unrecognised ones
\* included), and the prompt builders pick their tone by the same persona.
C23_ClosingTipOfResolvedPersona ==
    (RulesReturned /\ Len(ThresholdFired) < 6) =>
        LET resolved == persona_config(persona).name
        IN  /\ Len(tips) > 0
            /\ tips[Len(tips)] = TipOfPersona(resolved)
            /\ (tips[Len(tips)] = STUDENT_TIP
                    <=> startswith(lower(py_or(persona, <<>>)), STU))
            /\ prompt_tone(persona) = ToneOfPersona(resolved)

(***************************************************************************)
(* backend_name (app.py 50-56): the label the Chat page's Debug expander   *)
(* shows for the backend in use                                            *)
(***************************************************************************)
\* the default of line 34
OPENROUTER_MODEL == "deepseek/deepseek-chat"
MIDDLE_DOT == " (middle dot) "
OPENROUTER_NAME == "OpenRouter"
GRANITE_NAME == "Hugging Face (IBM Granite)"
DEMO_NAME == "Demo Mode (rule-based)"

\* a variant of line 53 that does not test the USE_HF_GRANITE switch
backend_name_ignores_switch ==
    IF OPENROUTER_API_KEY # ""
    THEN <<OPENROUTER_NAME, MIDDLE_DOT, OPENROUTER_MODEL>>
    ELSE IF HF_API_TOKEN # "" /\ HF_TEXT_MODEL # ""
    THEN <<GRANITE_NAME, MIDDLE_DOT, HF_TEXT_MODEL>>
    ELSE <<DEMO_NAME>>

\* backend_name()
backend_name ==
    IF OPENROUTER_API_KEY # ""
    THEN <<OPENROUTER_NAME, MIDDLE_DOT, OPENROUTER_MODEL>>
    ELSE IF USE_HF_GRANITE /\ HF_API_TOKEN # "" /\ HF_TEXT_MODEL # ""
    THEN <<GRANITE_NAME, MIDDLE_DOT, HF_TEXT_MODEL>>
    ELSE <<DEMO_NAME>>

\* the first thing this ask_llm call did was to call `who`
InvokedFirst(who) == trace # <<>> /\ trace[1] = Event("call", who, NoResp)

\* C24: under every configuration backend_name() names what ask_llm invokes
\* first: OpenRouter exactly when the call starts with the primary, Hugging
\* Face (IBM Granite) exactly when it starts with the fallback and never
\* calls the primary, Demo Mode exactly when it calls no backend and returns
\* the static tips.
C24_BackendNameMatchesDispatch ==
    pc # "idle" =>
        /\ backend_name[1] \in {OPENROUTER_NAME, GRANITE_NAME, DEMO_NAME}
        /\ backend_name[1] = OPENROUTER_NAME <=> InvokedFirst("openrouter")
        /\ backend_name[1] = GRANITE_NAME
                <=> (InvokedFirst("granite") /\ Count("call", "openrouter") = 0)
        /\ backend_name[1] = DEMO_NAME
                <=> (trace = <<>> /\ pc = "done" /\ result = STATIC_TIPS)

\* a call answered by the fallback alone, announced as Hugging Face
C24_Witness ==
    /\ pc = "done"
    /\ backend_name = <<GRANITE_NAME, MIDDLE_DOT, HF_TEXT_MODEL>>
    /\ InvokedFirst("granite")
    /\ result = fallback

(***************************************************************************)
(* The shape of the chat history (app.py 358-369)                          *)
(***************************************************************************)
\* user, assistant, user, assistant, ...
RolesAlternate(history) ==
    \A i \in 1..Len(history) :
        history[i].role = (IF i % 2 = 1 THEN "user" ELSE "assistant")

\* the end of a chat prompt whose conversation ends with turn m
PromptTail(m) == TurnLine(m) \o <<"\n", "\n">> \o CHAT_GUIDELINES

EndsWith(text, tail) ==
    Len(tail) <= Len(text) /\ SubSeq(text, Len(text) - Len(tail) + 1, Len(text)) = tail

\* between two interactions the history is a list of exchanges; during one
\* it is that plus the current user message, at which the prompt ends
ChatHistoryShape ==
    /\ RolesAlternate(chat_history)
    /\ cpc = "idle" => Len(chat_history) % 2 = 0
    /\ cpc = "asking" =>
          /\ Len(chat_history) % 2 = 1
          /\ prompt = make_chat_prompt(CFG.name, chat_history)
          /\ EndsWith(prompt, PromptTail(chat_history[Len(chat_history)]))

\* a turn is stored by the run that asks (the user's message, with the
\* prompt built on it) or by the end of that run (the answer to that prompt)
ChatTurnStored ==
    Len(chat_history') > Len(chat_history) =>
        /\ Len(chat_history') = Len(chat_history) + 1
        /\ IF chat_history'[Len(chat_history')].role = "user"
           THEN /\ cpc = "idle" /\ cpc' = "asking"
                /\ prompt' = make_chat_prompt(CFG'.name, chat_history')
           ELSE /\ cpc = "asking" /\ cpc' = "idle"
                /\ chat_history[Len(chat_history)].role = "user"
                /\ prompt' = prompt

\* C25: after each completed chat interaction the history has even length
\* and its roles alternate user, assistant from the first turn on, every user
\* turn being followed by the answer to the prompt built for it; a chat
\* prompt is built after the user message is appended and before the answer
\* is, so its transcript ends with the current user message.
C25_ExchangesAlternate == []ChatHistoryShape /\ [][ChatTurnStored]_vars

\* a second exchange is under way: the prompt ends with its user message
C25_Witness ==
    /\ cpc = "asking"
    /\ Len(chat_history) = 3
    /\ chat_history[2].role = "assistant"
    /\ EndsWith(prompt, PromptTail(chat_history[3]))

(***************************************************************************)
(* budget_engine/auth.py: accounts in assets/users.csv, sessions in        *)
(* assets/sessions.csv.  A dict is the sequence of its values in insertion *)
(* order; a file is the sequence of its rows under the header.  Names,     *)
(* emails, passwords and personas are sequences of characters.             *)
(***************************************************************************)
\* the clock is read in steps of 15 days
CLOCK_STEP == 15 * 24 * 3600
\* the clock stops after MaxClock steps
MaxClock == 2

SESSION_TTL_SECONDS == 30 * 24 * 3600

DEFAULT_NAME == <<"U", "s", "e", "r">>
MSG_INVALID_EMAIL == "Please enter a valid email."
MSG_EMAIL_EXISTS == "An account with this email already exists."
MSG_SHORT_PASSWORD == "Password must be at least 6 characters."
MSG_CREATED == "Account created successfully."
MIN_PASSWORD_LEN == 6

\* hashlib.sha256(password.encode("utf-8")).hexdigest()
hash_pw(password) == <<"sha256(">> \o password \o <<")">>

\* _normalize_email: (email or "").strip().lower()
normalize_email(email) == lower(strip(py_or(email, <<>>)))

\* _normalize_pw: (pw or "").strip()
normalize_pw(pw) == strip(py_or(pw, <<>>))

User(name, email, password_hash, label, created_at) ==
    [name |-> name, email |-> email, password_hash |-> password_hash,
     persona |-> label, created_at |-> created_at]

\* `key in users`, users.get(key), users[key] = u
users_has(users, key) == \E i \in 1..Len(users) : users[i].email = key
users_get(users, key) == users[CHOOSE i \in 1..Len(users) : users[i].email = key]
users_set(users, u) ==
    IF users_has(users, u.email)
    THEN [i \in 1..Len(users) |-> IF users[i].email = u.email THEN u ELSE users[i]]
    ELSE Append(users, u)

\* _load_users (46-60): one User per row, keyed by the normalised email
RECURSIVE load_rows(_, _)
load_rows(users, rows) ==
    IF rows = <<>> THEN users
    ELSE LET row == Head(rows)
             email_norm == normalize_email(row.email)
         IN  load_rows(
                 users_set(users,
                     User(strip(row.name), email_norm, row.password_hash,
                          py_or(strip(py_or(row.persona, <<>>)), PROFESSIONAL_LABEL),
                          row.created_at)),
                 Tail(rows))

load_users(file) == load_rows(<<>>, file)

\* a save that adds the rows of `users` to the rows the file holds now
save_users_merging(file, users) == load_rows(load_users(file), users)

\* _save_users (62-67): the file is rewritten with one row per entry
save_users(file, users) == users

\* a register_user that looks the email up as it was typed (line 78)
register_user_raw_lookup(users, name, email, password, label, t) ==
    LET email_norm == normalize_email(email)
        pw_norm == normalize_pw(password)
    IN  IF email_norm = <<>> THEN [ok |-> FALSE, msg |-> MSG_INVALID_EMAIL, users |-> users]
        ELSE IF users_has(users, py_or(email, <<>>))
        THEN [ok |-> FALSE, msg |-> MSG_EMAIL_EXISTS, users |-> users]
        ELSE IF Len(pw_norm) < MIN_PASSWORD_LEN
        THEN [ok |-> FALSE, msg |-> MSG_SHORT_PASSWORD, users |-> users]
        ELSE [ok |-> TRUE, msg |-> MSG_CREATED,
              users |-> users_set(users,
                  User(py_or(strip(py_or(name, <<>>)), DEFAULT_NAME), email_norm,
                       hash_pw(pw_norm), strip(py_or(label, PROFESSIONAL_LABEL)), t))]

\* register_user on the loaded dict, lines 74-89, at time t: the returned pair
\* and the dict handed to _save_users when ok
register_user(users, name, email, password, label, t) ==
    LET email_norm == normalize_email(email)
        pw_norm == normalize_pw(password)
    IN  IF email_norm = <<>> THEN [ok |-> FALSE, msg |-> MSG_INVALID_EMAIL, users |-> users]
        ELSE IF users_has(users, email_norm)
        THEN [ok |-> FALSE, msg |-> MSG_EMAIL_EXISTS, users |-> users]
        ELSE IF Len(pw_norm) < MIN_PASSWORD_LEN
        THEN [ok |-> FALSE, msg |-> MSG_SHORT_PASSWORD, users |-> users]
        ELSE [ok |-> TRUE, msg |-> MSG_CREATED,
              users |-> users_set(users,
                  User(py_or(strip(py_or(name, <<>>)), DEFAULT_NAME), email_norm,
                       hash_pw(pw_norm), strip(py_or(label, PROFESSIONAL_LABEL)), t))]

\* update_user_persona on the loaded dict, lines 107-110
update_user_persona(users, email, label) ==
    LET key == normalize_email(email)
    IN  IF users_has(users, key)
        THEN LET u == users_get(users, key)
             IN  [found |-> TRUE,
                  users |-> users_set(users,
                      User(u.name, u.email, u.password_hash,
                           strip(py_or(label, u.persona)), u.created_at))]
        ELSE [found |-> FALSE, users |-> users]

\* get_user (102-103)
get_user(file, email) ==
    LET users == load_users(file)
        key == normalize_email(email)
    IN  IF users_has(users, key)
        THEN [kind |-> "user", user |-> users_get(users, key)]
        ELSE [kind |-> "None"]

RetPair(o) == [kind |-> "pair", ok |-> o.ok, msg |-> o.msg]
RetNone == [kind |-> "None"]

Call(op, name, email, password, label, token) ==
    [op |-> op, name |-> name, email |-> email, password |-> password,
     persona |-> label, token |-> token]

\* what callers pass
EMAIL_A == <<"a", "@", "x">>
EMAIL_A_TYPED == <<" ", "A", "@", "x", " ">>
EMAIL_B == <<"b", "@", "x">>
AuthEmails == {EMAIL_A, EMAIL_A_TYPED, EMAIL_B, <<" ">>, NoText}
AuthPasswords ==
    {<<"s", "e", "c", "r", "e", "t">>, <<" ", "1", "2", "3", "4", "5", " ">>, NoText}
\* a name and a persona label, or neither
AuthProfiles == {<<(<<"A", "n", "u">>), STUDENT_LABEL>>, <<NoText, NoText>>}
UpdateEmails == {EMAIL_A_TYPED, EMAIL_B, NoText}
UpdatePersonas == {PROFESSIONAL_LABEL, NoText}

\* time passes
Tick ==
    /\ apc[1] # "off"
    /\ now < MaxClock * CLOCK_STEP
    /\ now' = now + CLOCK_STEP
    /\ UNCHANGED <<users_file, sessions_file, uuid_count, issued, revoked, apc, alocal, acall,
                   aret, configVars, dispatchVars, financeVars, ruleVars, goalVars, sessionVars>>

\* caller p runs register_user from its first line to its return
RegisterUser(p, name, email, password, label) ==
    /\ apc[p] = "idle"
    /\ LET o == register_user(load_users(users_file), name, email, password, label, now)
       IN  /\ users_file' = (IF o.ok THEN save_users(users_file, o.users) ELSE users_file)
           /\ aret' = [aret EXCEPT ![p] = RetPair(o)]
    /\ acall' = [acall EXCEPT ![p] = Call("register_user", name, email, password, label, "")]
    /\ UNCHANGED <<sessions_file, now, uuid_count, issued, revoked, apc, alocal,
                   configVars, dispatchVars, financeVars, ruleVars, goalVars, sessionVars>>

\* caller p runs update_user_persona
UpdateUserPersona(p, email, label) ==
    /\ apc[p] = "idle"
    /\ LET o == update_user_persona(load_users(users_file), email, label)
       IN  users_file' = (IF o.found THEN save_users(users_file, o.users) ELSE users_file)
    /\ aret' = [aret EXCEPT ![p] = RetNone]
    /\ acall' = [acall EXCEPT ![p] = Call("update_user_persona", NoText, email, NoText, label, "")]
    /\ UNCHANGED <<sessions_file, now, uuid_count, issued, revoked, apc, alocal,
                   configVars, dispatchVars, financeVars, ruleVars, goalVars, sessionVars>>

\* a process has imported the module; ensure_user_store has written the headers
AuthInit ==
    /\ OPENROUTER_API_KEY = "" /\ USE_HF_GRANITE = FALSE /\ HF_API_TOKEN = "" /\ HF_TEXT_MODEL = ""
    /\ DispatchIdle /\ FinanceIdle /\ RulesIdle /\ GoalIdle /\ SessionIdle
    /\ users_file = <<>>
    /\ sessions_file = <<>>
    /\ now = 0
    /\ uuid_count = 0
    /\ issued = {}
    /\ revoked = {}
    /\ apc = [p \in Procs |-> "idle"]
    /\ alocal = [p \in Procs |-> <<>>]
    /\ acall = [p \in Procs |-> NoCall]
    /\ aret = [p \in Procs |-> NoRet]

UsersNext ==
    \/ \E profile \in AuthProfiles, email \in AuthEmails, password \in AuthPasswords :
          RegisterUser(1, profile[1], email, password, profile[2])
    \/ \E email \in UpdateEmails, label \in UpdatePersonas :
          UpdateUserPersona(1, email, label)

\* one caller registering accounts and changing personas, one call after another
SpecUsers == AuthInit /\ [][UsersNext]_vars

(***************************************************************************)
(* Rejected registrations                                                  *)
(***************************************************************************)
EmailsOnFile == {normalize_email(users_file[i].email) : i \in 1..Len(users_file)}

\* no two rows of the users file hold the same normalised email
NoSharedEmail ==
    \A i, j \in 1..Len(users_file) :
        i # j => normalize_email(users_file[i].email) # normalize_email(users_file[j].email)

\* the three grounds for rejecting the registration c, judged on the file as
\* it is when the call starts
MustReject(c) ==
    \/ strip(py_or(c.email, <<>>)) = <<>>
    \/ lower(strip(py_or(c.email, <<>>))) \in EmailsOnFile
    \/ Len(strip(py_or(c.password, <<>>))) < 6

\* C26: a register_user call with an email that is empty after trimming, or
\* already registered when compared trimmed and lower-cased, or with a
\* password of fewer than 6 characters after trimming, returns
\* (False, message) and leaves the users file as it was, so no existing
\* account is overwritten; after any sequence of register_user and
\* update_user_persona calls no two stored users share a normalised email.
C26_RejectedRegistrationChangesNothing ==
    /\ []NoSharedEmail
    /\ [][ (acall'[1].op = "register_user" /\ MustReject(acall'[1])) =>
              /\ aret'[1].kind = "pair"
              /\ aret'[1].ok = FALSE
              /\ aret'[1].msg \in {MSG_INVALID_EMAIL, MSG_EMAIL_EXISTS, MSG_SHORT_PASSWORD}
              /\ users_file' = users_file ]_vars

\* a Student account stands; a second registration of its email, typed with
\* a capital and blanks around it and with no persona, has been turned down
C26_Witness ==
    /\ acall[1].op = "register_user"
    /\ acall[1].email = EMAIL_A_TYPED
    /\ acall[1].persona = NoText
    /\ aret[1] = [kind |-> "pair", ok |-> FALSE, msg |-> MSG_EMAIL_EXISTS]
    /\ Len(users_file) = 1
    /\ users_file[1].email = EMAIL_A
    /\ users_file[1].persona = STUDENT_LABEL

(***************************************************************************)
(* Sessions (auth.py 114-170).  The dict `sessions` is the sequence of its *)
(* items [token, email, expires_at] in insertion order.                    *)
(***************************************************************************)
\* most tokens handed out
MaxSessions == 1

\* uuid.uuid4().hex: the n-th token handed out
Token(n) == "t" \o ToString(n)

sessions_has(sessions, token) == \E i \in 1..Len(sessions) : sessions[i].token = token
sessions_get(sessions, token) ==
    sessions[CHOOSE i \in 1..Len(sessions) : sessions[i].token = token]
sessions_set(sessions, item) ==
    IF sessions_has(sessions, item.token)
    THEN [i \in 1..Len(sessions) |-> IF sessions[i].token = item.token THEN item ELSE sessions[i]]
    ELSE Append(sessions, item)
sessions_pop(sessions, token) == SelectSeq(sessions, LAMBDA it : it.token # token)

\* _save_sessions (138-143): the file is rewritten with one row per item
save_sessions(sessions) == sessions

\* the loop of _load_sessions (122-133) at time t: `out` and `changed`
RECURSIVE load_session_rows(_, _, _, _)
load_session_rows(out, changed, rows, t) ==
    IF rows = <<>> THEN [sessions |-> out, changed |-> changed]
    ELSE LET row == Head(rows)
             email == normalize_email(row.email)
         IN  IF row.token # "" /\ email # <<>>
             THEN IF row.expires_at > t
                  THEN load_session_rows(
                           sessions_set(out, [token |-> row.token, email |-> email,
                                              expires_at |-> row.expires_at]),
                           changed, Tail(rows), t)
                  ELSE load_session_rows(out, TRUE, Tail(rows), t)
             ELSE load_session_rows(out, changed, Tail(rows), t)

\* _load_sessions (114-136) at time t: the dict it returns and the file it leaves
load_sessions(file, t) ==
    LET o == load_session_rows(<<>>, FALSE, file, t)
    IN  [sessions |-> o.sessions,
         file |-> IF o.changed THEN save_sessions(o.sessions) ELSE file]

\* create_session (145-153) with uuid4 giving `token`: the file it leaves
create_session(file, email, token, t) ==
    save_sessions(
        sessions_set(load_sessions(file, t).sessions,
            [token |-> token, email |-> normalize_email(email),
             expires_at |-> t + SESSION_TTL_SECONDS]))

\* user_from_session (155-164): what it returns and the sessions file it leaves
user_from_session(file, ufile, token, t) ==
    IF token = "" THEN [ret |-> RetNone, file |-> file]
    ELSE LET o == load_sessions(file, t)
         IN  IF ~sessions_has(o.sessions, token)
             THEN [ret |-> RetNone, file |-> o.file]
             ELSE [ret |-> get_user(ufile, sessions_get(o.sessions, token).email),
                   file |-> o.file]

\* revoke_session (166-170): the file it leaves
revoke_session(file, token, t) ==
    LET o == load_sessions(file, t)
    IN  IF sessions_has(o.sessions, token)
        THEN save_sessions(sessions_pop(o.sessions, token))
        ELSE o.file

\* the emails sessions are made for, and the tokens callers present
SessionEmails == {EMAIL_A_TYPED, EMAIL_B, NoText}
TokenPool == {""} \cup {Token(n) : n \in 1..(MaxSessions + 1)}

\* caller p runs create_session
CreateSession(p, email) ==
    /\ apc[p] = "idle"
    /\ uuid_count < MaxSessions
    /\ uuid_count' = uuid_count + 1
    /\ sessions_file' = create_session(sessions_file, email, Token(uuid_count'), now)
    /\ issued' = issued \cup {[token |-> Token(uuid_count'), email |-> email, at |-> now]}
    /\ aret' = [aret EXCEPT ![p] = [kind |-> "token", token |-> Token(uuid_count')]]
    /\ acall' = [acall EXCEPT ![p] = Call("create_session", NoText, email, NoText, NoText, "")]
    /\ UNCHANGED <<users_file, now, revoked, apc, alocal,
                   configVars, dispatchVars, financeVars, ruleVars, goalVars, sessionVars>>

\* caller p runs user_from_session
UserFromSession(p, token) ==
    /\ apc[p] = "idle"
    /\ LET o == user_from_session(sessions_file, users_file, token, now)
       IN  /\ sessions_file' = o.file
           /\ aret' = [aret EXCEPT ![p] = o.ret]
    /\ acall' = [acall EXCEPT ![p] = Call("user_from_session", NoText, NoText, NoText, NoText, token)]
    /\ UNCHANGED <<users_file, now, uuid_count, issued, revoked, apc, alocal,
                   configVars, dispatchVars, financeVars, ruleVars, goalVars, sessionVars>>

\* caller p runs revoke_session
RevokeSession(p, token) ==
    /\ apc[p] = "idle"
    /\ sessions_file' = revoke_session(sessions_file, token, now)
    /\ revoked' = (IF \E r \in issued : r.token = token THEN revoked \cup {token} ELSE revoked)
    /\ aret' = [aret EXCEPT ![p] = RetNone]
    /\ acall' = [acall EXCEPT ![p] = Call("revoke_session", NoText, NoText, NoText, NoText, token)]
    /\ UNCHANGED <<users_file, now, uuid_count, issued, apc, alocal,
                   configVars, dispatchVars, financeVars, ruleVars, goalVars, sessionVars>>

SessionsNext ==
    \/ RegisterUser(1, <<"A", "n", "u">>, EMAIL_A, <<"s", "e", "c", "r", "e", "t">>, STUDENT_LABEL)
    \/ \E email \in SessionEmails : CreateSession(1, email)
    \/ \E token \in TokenPool : UserFromSession(1, token)
    \/ \E token \in TokenPool \ {""} : RevokeSession(1, token)
    \/ Tick

\* one caller opening, looking up and revoking sessions while time passes
SpecSessions == AuthInit /\ [][SessionsNext]_vars

(***************************************************************************)
(* Which tokens resolve, and what a load leaves in the sessions file       *)
(***************************************************************************)
\* create_session returned this token and its 30 days are not over
IssuedAndUnexpired(token) ==
    \E r \in issued : r.token = token /\ now < r.at + 30 * 24 * 3600

\* a lookup of `token` made now returns a user
Resolves(token) == user_from_session(sessions_file, users_file, token, now).ret.kind = "user"

\* the rows a _load_sessions made now leaves in the file
RowsAfterLoad == load_sessions(sessions_file, now).file

LookupOnlyOfLiveSessions ==
    \A token \in TokenPool :
        Resolves(token) => (IssuedAndUnexpired(token) /\ token \notin revoked)

\* C27: after any sequence of create_session, revoke_session and
\* user_from_session calls and any passage of time, user_from_session(token)
\* returns a user only if create_session issued the token, it has not been
\* revoked and the time is before issue time + 30 days (so a revoked or
\* expired token resolves to None ever after), and a load of the session
\* file leaves no expired session in it.
C27_LiveSessionsOnly ==
    /\ LookupOnlyOfLiveSessions
    /\ \A i \in 1..Len(RowsAfterLoad) : RowsAfterLoad[i].expires_at > now

\* the session of `token` is on file and unexpired, and nobody is registered
\* under its email
OrphanSession(token) ==
    LET live == load_sessions(sessions_file, now).sessions
    IN  /\ token # ""
        /\ sessions_has(live, token)
        /\ get_user(users_file, sessions_get(live, token).email).kind = "None"

\* C28: user_from_session called with an unexpired token whose email has no
\* user record returns None and revokes the session: the token is not in the
\* session file it leaves.
C28_OrphanSessionRevoked ==
    \A token \in TokenPool :
        OrphanSession(token) =>
            LET o == user_from_session(sessions_file, users_file, token, now)
            IN  /\ o.ret = RetNone
                /\ \A i \in 1..Len(o.file) : o.file[i].token # token

(***************************************************************************)
(* Two callers (two browser sessions, two processes) on the same files.    *)
(* An operation reads the whole file when it loads and rewrites the whole  *)
(* file when it saves; another caller may run between the two.             *)
(***************************************************************************)
RaceEmails == {EMAIL_A, EMAIL_B}
RACE_PASSWORD == <<"s", "e", "c", "r", "e", "t">>

\* register_user up to its _save_users: lines 73-89
BeginRegister(p, email) ==
    /\ apc[p] = "idle"
    /\ LET o == register_user(load_users(users_file), NoText, email, RACE_PASSWORD, NoText, now)
       IN  IF o.ok
           THEN /\ alocal' = [alocal EXCEPT ![p] = o.users]
                /\ apc' = [apc EXCEPT ![p] = "save_users"]
                /\ aret' = aret
           ELSE /\ aret' = [aret EXCEPT ![p] = RetPair(o)]
                /\ apc' = [apc EXCEPT ![p] = "done"]
                /\ alocal' = alocal
    /\ acall' = [acall EXCEPT ![p] = Call("register_user", NoText, email, RACE_PASSWORD, NoText, "")]
    /\ UNCHANGED <<users_file, sessions_file, now, uuid_count, issued, revoked,
                   configVars, dispatchVars, financeVars, ruleVars, goalVars, sessionVars>>

\* lines 90-91: _save_users(users), return True
FinishRegister(p) ==
    /\ apc[p] = "save_users"
    /\ users_file' = save_users(users_file, alocal[p])
    /\ aret' = [aret EXCEPT ![p] = [kind |-> "pair", ok |-> TRUE, msg |-> MSG_CREATED]]
    /\ apc' = [apc EXCEPT ![p] = "done"]
    /\ UNCHANGED <<sessions_file, now, uuid_count, issued, revoked, alocal, acall,
                   configVars, dispatchVars, financeVars, ruleVars, goalVars, sessionVars>>

\* create_session up to its _save_sessions: lines 146-151
BeginCreateSession(p, email) ==
    /\ apc[p] = "idle"
    /\ uuid_count' = uuid_count + 1
    /\ LET o == load_sessions(sessions_file, now)
       IN  /\ sessions_file' = o.file
           /\ alocal' = [alocal EXCEPT ![p] =
                  sessions_set(o.sessions,
                      [token |-> Token(uuid_count'), email |-> normalize_email(email),
                       expires_at |-> now + SESSION_TTL_SECONDS])]
    /\ apc' = [apc EXCEPT ![p] = "save_sessions"]
    /\ acall' = [acall EXCEPT ![p] =
           Call("create_session", NoText, email, NoText, NoText, Token(uuid_count'))]
    /\ UNCHANGED <<users_file, now, issued, revoked, aret,
                   configVars, dispatchVars, financeVars, ruleVars, goalVars, sessionVars>>

\* lines 152-153: _save_sessions(sessions), return token
FinishCreateSession(p) ==
    /\ apc[p] = "save_sessions"
    /\ sessions_file' = save_sessions(alocal[p])
    /\ issued' = issued \cup {[token |-> acall[p].token, email |-> acall[p].email, at |-> now]}
    /\ aret' = [aret EXCEPT ![p] = [kind |-> "token", token |-> acall[p].token]]
    /\ apc' = [apc EXCEPT ![p] = "done"]
    /\ UNCHANGED <<users_file, now, uuid_count, revoked, alocal, acall,
                   configVars, dispatchVars, financeVars, ruleVars, goalVars, sessionVars>>

\* the caller is ready for its next operation
NextOperation(p) ==
    /\ apc[p] = "done"
    /\ uuid_count < MaxSessions + 1
    /\ apc' = [apc EXCEPT ![p] = "idle"]
    /\ alocal' = [alocal EXCEPT ![p] = <<>>]
    /\ acall' = [acall EXCEPT ![p] = NoCall]
    /\ aret' = [aret EXCEPT ![p] = NoRet]
    /\ UNCHANGED <<users_file, sessions_file, now, uuid_count, issued, revoked,
                   configVars, dispatchVars, financeVars, ruleVars, goalVars, sessionVars>>

RaceNext ==
    \E p \in Procs :
        \/ \E email \in RaceEmails : BeginRegister(p, email)
        \/ FinishRegister(p)
        \/ \E email \in RaceEmails : BeginCreateSession(p, email)
        \/ FinishCreateSession(p)
        \/ NextOperation(p)

SpecRace == AuthInit /\ [][RaceNext]_vars

Other(p) == 3 - p

\* both callers have come back from a successful register_user, for two
\* different emails, and each had loaded the file before the other saved
BothRegistered ==
    /\ \A p \in Procs : apc[p] = "done" /\ acall[p].op = "register_user" /\ aret[p].ok
    /\ normalize_email(acall[1].email) # normalize_email(acall[2].email)
    /\ \A p \in Procs : ~users_has(alocal[p], normalize_email(acall[Other(p)].email))

\* both callers have come back from create_session, and each had loaded the
\* file before the other saved
BothOpenedSessions ==
    /\ \A p \in Procs : apc[p] = "done" /\ acall[p].op = "create_session"
    /\ \A p \in Procs : ~sessions_has(alocal[p], acall[Other(p)].token)

NewUsersOnFile ==
    {p \in Procs : users_has(load_users(users_file), normalize_email(acall[p].email))}
NewSessionsOnFile ==
    {p \in Procs : sessions_has(load_sessions(sessions_file, now).sessions, acall[p].token)}

\* C21: the store is not transactional.  When two callers run register_user
\* (with different emails) or create_session at the same time, each reading
\* the whole file before the other has written it, both report success and
\* the file ends up with only one of the two new records, the one saved
\* last; such an interleaving is reachable.
C21_LostUpdate ==
    /\ BothRegistered =>
          /\ Cardinality(NewUsersOnFile) = 1
          /\ \E p \in Procs : users_file = alocal[p]
    /\ BothOpenedSessions =>
          /\ Cardinality(NewSessionsOnFile) = 1
          /\ \E p \in Procs : sessions_file = alocal[p]

\* two registrations succeeded and the users file holds one account
C21_Witness ==
    /\ BothRegistered
    /\ aret[1] = [kind |-> "pair", ok |-> TRUE, msg |-> MSG_CREATED]
    /\ aret[2] = [kind |-> "pair", ok |-> TRUE, msg |-> MSG_CREATED]
    /\ Len(users_file) = 1

====
